---- MODULE Spec2Model ----
(***************************************************************************)
(* Calculation server runtime of AQUAgpusph: the tool base (Tool.cpp), the *)
(* parallel Reduction, the Link-List and the multi-process MPISync tools.  *)
(*                                                                         *)
(* Four specifications share this module, one per subsystem:               *)
(*   SpecTool  Tool::execute / Tool::getEvents over a pool of variables    *)
(*   SpecRed   Reduction::setupOpenCL / _execute / populator               *)
(*   SpecLL    LinkList::_execute / nCells / allocate / setVariables       *)
(*   SpecMPI   MPISync::_execute, Sender, Receiver and their callbacks     *)
(* The variables of the subsystems a specification does not drive stay at  *)
(* their initial value.                                                    *)
(***************************************************************************)
EXTENDS Integers, Sequences, FiniteSets, TLC

\* The null event (cl_event NULL).
NULL == 0

Range(s) == {s[i] : i \in DOMAIN s}

Max2(a, b) == IF a >= b THEN a ELSE b

Min2(a, b) == IF a <= b THEN a ELSE b

(***************************************************************************)
(*                                State                                    *)
(***************************************************************************)

\* Tool base
VARIABLES
    tEvent,      \* Variable::_event of every variable (getEvent/setEvent)
    tWaits,      \* event -> the events its command was enqueued to wait on
    tIters,      \* Tool::_n_iters
    tNextId,     \* the next event the accelerator hands out
    tLastTool,   \* the tool of the last Tool::execute call ("" before any)
    tLastRan,    \* whether that call ran _execute (FALSE: skipped by _once)
    tLastList,   \* the wait list that call handed to _execute
    tLastOut,    \* the event _execute returned to that call
    tBefore,     \* tEvent when that call started
    tPublished,  \* variable -> the out-events published on it before that call
    tRetained,   \* event -> references Tool::getEvents took and that were
                 \* not released
    tLastRefs,   \* the clRetainEvent and clReleaseEvent calls of that call on
                 \* the events of its wait list, and whether _execute threw
    tFailed      \* whether an exception left Tool::execute (the run is over)

toolVars == <<tEvent, tWaits, tIters, tNextId, tLastTool, tLastRan,
              tLastList, tLastOut, tBefore, tPublished, tRetained,
              tLastRefs, tFailed>>

\* Reduction
VARIABLES
    rOp,          \* Reduction::_operation (and _null_val)
    rLocalSize,   \* Reduction::_local_work_sizes (the same for every pass)
    rN,           \* Reduction::_n, the elements each pass reduces
    rMem,         \* contents of Reduction::_mems (rMem[1] is the input array)
    rOutput,      \* host value of the output variable (_output_var->get())
    rPopulated,   \* the output value the registry knows since populate()
    rExecs,       \* number of Reduction::execute calls so far
    rUserEvent,   \* Reduction::_user_event (the call that created it, 0: none)
    rUserStatus,  \* call -> status of the user event it created
    rMarker,      \* call -> status of the marker it returned as out-event
    rCallback,    \* call -> position of its populator callback
    rDirty,       \* whether the input was written since the last read-back
    rVarBuf,      \* the buffer of the input variable, *(cl_mem*)_input_var->get()
    rVarData,     \* contents of that buffer
    rInput,       \* Reduction::_input, the buffer bound to argument 0 of the
                  \* first kernel (rMem[1] is its contents)
    rLastRead,    \* the buffer the first pass of the last call was enqueued
                  \* on, and the buffer the input variable had then
    rFault,       \* whether the device terminates the next read-back
                  \* abnormally
    rReadStatus   \* call -> status of the event of its read-back

redEnvVars == <<rVarBuf, rVarData, rInput, rLastRead, rFault, rReadStatus>>

redVars == <<rOp, rLocalSize, rN, rMem, rOutput, rPopulated, rExecs,
             rUserEvent, rUserStatus, rMarker, rCallback, rDirty, redEnvVars>>

\* Link-List
VARIABLES
    llPc,          \* host position in LinkList::_execute ("idle" / "wait"),
                   \* "failed" once an exception left it
    llQueue,       \* commands of the main command queue not yet completed
    llCellLength,  \* LinkList::_cell_length
    llNCells,      \* registry value of n_cells, <<x, y, z, w>>
    llIhoc,        \* registry value of ihoc (the cl_mem handle, 0: NULL)
    llRMin,        \* registry value of r_min
    llBuf,         \* handle -> elements of the buffer behind it (-1: none)
    llGen,         \* handle -> how many buffers were created behind it
    llIhocGws,     \* LinkList::_ihoc_gws
    llKArgs,       \* kernel -> slot -> the value bound with clSetKernelArg
    llShadow,      \* kernel -> slot -> LinkList::_ihoc_args/_icell_args/_ll_args
    llExecs,       \* number of LinkList::execute calls so far
    llUsed,        \* whether a command was enqueued on the current ihoc buffer
    llRegistered,  \* whether an event was registered on n_cells so far
    llLast         \* what the last LinkList::execute call observed and did

llVars == <<llPc, llQueue, llCellLength, llNCells, llIhoc, llRMin, llBuf,
            llGen, llIhocGws, llKArgs, llShadow, llExecs, llUsed, llRegistered,
            llLast>>

\* MPISync
VARIABLES
    mProcs,        \* MPISync::_procs, the peers left by the constructor
    mF,            \* number of declared fields, _fields.size()
    mIter,         \* MPISync::execute calls so far
    mEvent,        \* Variable::_event of the mask (0) and of the fields (1..)
    mOffsetEvent,  \* Variable::_event of __mpi_offset (_n_offset_recv)
    mOffset,       \* host value of __mpi_offset
    mDone,         \* the reset and user events that are CL_COMPLETE
    mPendingSync,  \* the commands of the second queue still to complete, in
                   \* order, each by the user event synced to it
    mQueueWaits,   \* events the commands left in the main queue wait on
    mRecv,         \* receiver -> its MPISyncRecvUserData and callback position
    mSend,         \* peer -> its sender towards this process and callbacks
    mChan,         \* peer -> tag -> messages sent to this process, in order
    mDownRan,      \* whether the tool after MPISync ran in this iteration
    mSetTwice,     \* user events whose status was set more than once
    mCalls,        \* the last MPISync::_execute with peers: the executes of
                   \* its tools in program order, and the event the reset
                   \* of the mask was enqueued to wait on
    mLast          \* the last Tool::execute call: tool, events before the
                   \* call, events _execute left, the event it returned

mpiVars == <<mProcs, mF, mIter, mEvent, mOffsetEvent, mOffset, mDone,
             mPendingSync, mQueueWaits, mRecv, mSend, mChan, mDownRan,
             mSetTwice, mCalls, mLast>>

\* MPISync, the particles: two processes (ranks 0 and 1), each with its mask
\* and one field
VARIABLES
    sInitMask,     \* rank -> the mask before the step
    sMask,         \* rank -> the mask array
    sField,        \* rank -> the field array (a particle identifier per slot)
    sOffset,       \* rank -> host value of __mpi_offset
    sWire,         \* rank -> what its sender put on the wire for the peer
    sPc            \* rank -> position in the step

syncVars == <<sInitMask, sMask, sField, sOffset, sWire, sPc>>

\* MPISync, the host buffer the senders share for one field
VARIABLES
    hProcs,        \* MPISync::_procs
    hIter,         \* MPISync::execute calls so far
    hOffset,       \* peer -> value of the n_offset variable of its sender
    hN,            \* peer -> value of the n_send variable of its sender
    hCalls,        \* the cbMPISend calls registered and not returned yet
    hFlight,       \* the non-blocking sends the peer has not received yet
    hClobbered     \* whether a download wrote into a slice being sent

hostVars == <<hProcs, hIter, hOffset, hN, hCalls, hFlight, hClobbered>>

\* MPISync, the types of the fields
VARIABLES
    xHave3D,      \* whether the build has HAVE_3D
    xTypes,       \* the type names of the fields (_fields[i]->type())
    xN,           \* the number of particles the sender has for its peer
    xSend,        \* tag -> position of the send callback of that field
    xDesc,        \* tag -> the descriptor typeToMPI gave that callback
    xSenderDown,  \* whether an exception terminated the sending process
    xCount,       \* the message with tag 0 as the peer gets it
    xPayload,     \* the tags of the payloads sent and not yet received
    xRecv,        \* cbMPIRecv of the peer: position, field, count
    xFieldEvent   \* field -> status of the user event Receiver::execute
                  \* set on it

xchVars == <<xHave3D, xTypes, xN, xSend, xDesc, xSenderDown, xCount,
             xPayload, xRecv, xFieldEvent>>

\* Link-List, the grid of cells and the heads of the cells
VARIABLES
    gHave3D,      \* whether the build defines HAVE_3D
    gCellLength,  \* LinkList::_cell_length
    gR,           \* the positions r of the particles, particle i at gR[i + 1]
    gPc,          \* "idle", then the kernel the device runs next, then "done"
    gRMin,        \* registry value of r_min
    gRMax,        \* registry value of r_max
    gRequired,    \* LinkList::_n_cells, <<x, y, z, w>>
    gNCells,      \* registry value of n_cells, <<x, y, z, w>>
    gIhocGws,     \* LinkList::_ihoc_gws
    gICell,       \* the icell array, particle i at gICell[i + 1]
    gIhoc         \* the ihoc buffer, cell -> value (-1: never written)

gridVars == <<gHave3D, gCellLength, gR, gPc, gRMin, gRMax, gRequired, gNCells,
              gIhocGws, gICell, gIhoc>>

\* Reduction, the passes built by setupOpenCL
VARIABLES
    pLocalSize,  \* local_size of Reduction::setupOpenCL
    pInput,      \* elements of the input array, _n.at(0) before the loop
    pn,          \* n of the loop "while (n > 1)"
    pi,          \* i of the loop
    pNs,         \* Reduction::_n, filled by the loop
    pGroups,     \* Reduction::_number_groups
    pMems,       \* Reduction::_mems, the elements of each buffer
    pKernels,    \* Reduction::_kernels, the _mems indexes bound to arguments
                 \* 0 and 1 of each kernel
    pPc          \* "loop", "done", or "failed" once an exception left the setup

passVars == <<pLocalSize, pInput, pn, pi, pNs, pGroups, pMems, pKernels, pPc>>

\* Assert, a pipeline run with the assertion and the same run without it
VARIABLES
    aVal,     \* run -> variable -> value of the registry
    aEvent,   \* run -> variable -> the event the variable holds
    aWaits,   \* run -> the events created so far, each with its wait list
    aIter,    \* iterations of the pipeline completed
    aPos,     \* position in the pipeline of the tool to execute next
    aFatal,   \* run -> the fatal error that ended it ("": none)
    aResult   \* result of the last evaluation of the condition (-1: none)

chkVars == <<aVal, aEvent, aWaits, aIter, aPos, aFatal, aResult>>

\* MPISync::setup, the variables of the tool
VARIABLES
    vMaskVar,    \* what the registry holds under _mask_name
    vFieldVars,  \* what the registry holds under each name of _field_names
    vPc,         \* "new", then "ready" or "failed" once MPISync::setup ended
    vError,      \* the what() of the exception that left setup ("": none)
    vMask,       \* whether MPISync::_mask was set
    vN,          \* MPISync::_n
    vFields,     \* MPISync::_fields, as indexes of _field_names
    vDeps,       \* Tool::_vars, the dependencies of the tool
    vBuilt       \* the subtools created and set up, in order

varVars == <<vMaskVar, vFieldVars, vPc, vError, vMask, vN, vFields, vDeps,
             vBuilt>>

\* Reports
VARIABLES
    repKind,      \* "Report": a report that asks mustUpdate; "TabFile"
    repIpf,       \* Report::_ipf
    repFps,       \* Report::_fps
    repIter,      \* registry value of iter
    repT,         \* registry value of t, in half units of time
    repLastIter,  \* Report::_iter
    repLastT,     \* Report::_t, in half units of time
    repLast       \* what the last execute found and did

repVars == <<repKind, repIpf, repFps, repIter, repT, repLastIter, repLastT,
             repLast>>

\* nextPowerOf2, the loop
VARIABLES
    wN,      \* the argument n
    wP,      \* p of the loop "while (p < n)"
    wTurns,  \* turns of the loop taken so far
    wPc,     \* "test", "loop" or "returned"
    wValue   \* the value returned (0 before the return)

powVars == <<wN, wP, wTurns, wPc, wValue>>

\* replaceAll, the loop
VARIABLES
    sOriginal,  \* str at the call
    sStr,       \* str
    sSearch,    \* search
    sReplace,   \* replace
    sPos,       \* pos, counted from 0
    sTurns,     \* turns of the loop taken so far
    sLoc        \* "loop" or "returned"

strVars == <<sOriginal, sStr, sSearch, sReplace, sPos, sTurns, sLoc>>

\* MPISync::MPISync, the list of peers
VARIABLES
    kInput,  \* procs as passed by the caller
    kRank,   \* mpi_rank
    kSize,   \* mpi_size
    kProcs,  \* MPISync::_procs
    kPc,     \* "new", then "built" once the constructor returned
    kLast    \* what the last MPISync::_execute did ("none" before any)

ctorVars == <<kInput, kRank, kSize, kProcs, kPc, kLast>>

\* LinkList::_execute, the order of its steps
VARIABLES
    oPc,      \* host position in LinkList::_execute
    oExec,    \* number of the LinkList::execute call under way (0: none yet)
    oStatus,  \* event -> "none", "queued", "running" or "complete"
    oWaits,   \* event -> the events of its command's wait list
    oWriter,  \* variable -> its writing event
    oEvents,  \* the wait list Tool::execute handed to _execute
    oOut,     \* call -> the out-event it returned
    oSeen     \* call -> status of the two reductions when nCells() ran

ordVars == <<oPc, oExec, oStatus, oWaits, oWriter, oEvents, oOut, oSeen>>

\* Reduction::_execute, the chain of its events
VARIABLES
    cKernels,   \* _kernels.size()
    cInput,     \* _input_var->getWritingEvent() at the call
    cEvents,    \* events, the wait list handed over by Tool::execute
    cEvent,     \* the local event
    cI,         \* the local i
    cPc,        \* "entry", "loop", "done" or "failed"
    cCmds,      \* the commands enqueued, in order
    cCreated,   \* event -> times an enqueue created it
    cRetained,  \* event -> clRetainEvent calls of _execute on it
    cReleased   \* event -> clReleaseEvent calls of _execute on it

chainVars == <<cKernels, cInput, cEvents, cEvent, cI, cPc, cCmds, cCreated,
               cRetained, cReleased>>

\* LinkList, the cell edge
VARIABLES
    eSupport,     \* registry value of support
    eH,           \* registry value of h
    eCellLength,  \* LinkList::_cell_length
    eKArgs,       \* <<support, h>> bound to slots 5 and 6 of iCell
    eShadow,      \* _icell_args.at(5) and _icell_args.at(6)
    eExecs,       \* number of LinkList::execute calls so far
    eLast         \* what the last call used: the edge of nCells(), the
                  \* scalars of the registry, the arguments of iCell

edgeVars == <<eSupport, eH, eCellLength, eKArgs, eShadow, eExecs, eLast>>

\* Reduction, the user event of each call
VARIABLES
    uExecs,      \* number of Reduction::execute calls so far
    uUserEvent,  \* Reduction::_user_event (the call that created it, 0: none)
    uRead,       \* call -> status its read-back event ends with
    uStatus,     \* call -> status of the user event it created
    uMarker,     \* call -> status of the marker it returned
    uCallback,   \* call -> position of its populator callback
    uSetOn,      \* call -> the user event its callback set (0: none yet)
    uReleased    \* call -> the user event its callback released (0: none yet)

usrVars == <<uExecs, uUserEvent, uRead, uStatus, uMarker, uCallback, uSetOn,
             uReleased>>

\* MPISync::Sender, what a send callback reads
VARIABLES
    dIter,      \* Sender::execute calls so far
    dOffset,    \* host value of the n_offset variable, *(data->offset)
    dN,         \* host value of the n_send variable, *(data->n)
    dComputed,  \* call -> <<offset, n>> its two reductions read back
    dCalls,     \* the cbMPISend calls registered and not entered yet
    dUsed       \* call -> tag -> <<offset, n>> the callback read at entry
                \* (<<>>: not entered yet)

sndVars == <<dIter, dOffset, dN, dComputed, dCalls, dUsed>>

\* What each subsystem leaves alone.
notTool == <<redVars, llVars, mpiVars, syncVars, hostVars, xchVars, gridVars,
    passVars, chkVars, varVars, repVars, powVars, strVars, ctorVars, ordVars,
    chainVars, edgeVars, usrVars, sndVars>>

notRed == <<toolVars, llVars, mpiVars, syncVars, hostVars, xchVars, gridVars,
    passVars, chkVars, varVars, repVars, powVars, strVars, ctorVars, ordVars,
    chainVars, edgeVars, usrVars, sndVars>>

notLL == <<toolVars, redVars, mpiVars, syncVars, hostVars, xchVars, gridVars,
    passVars, chkVars, varVars, repVars, powVars, strVars, ctorVars, ordVars,
    chainVars, edgeVars, usrVars, sndVars>>

notMPI == <<toolVars, redVars, llVars, syncVars, hostVars, xchVars, gridVars,
    passVars, chkVars, varVars, repVars, powVars, strVars, ctorVars, ordVars,
    chainVars, edgeVars, usrVars, sndVars>>

notSync == <<toolVars, redVars, llVars, mpiVars, hostVars, xchVars, gridVars,
    passVars, chkVars, varVars, repVars, powVars, strVars, ctorVars, ordVars,
    chainVars, edgeVars, usrVars, sndVars>>

notHost == <<toolVars, redVars, llVars, mpiVars, syncVars, xchVars, gridVars,
    passVars, chkVars, varVars, repVars, powVars, strVars, ctorVars, ordVars,
    chainVars, edgeVars, usrVars, sndVars>>

notXch == <<toolVars, redVars, llVars, mpiVars, syncVars, hostVars, gridVars,
    passVars, chkVars, varVars, repVars, powVars, strVars, ctorVars, ordVars,
    chainVars, edgeVars, usrVars, sndVars>>

notGrid == <<toolVars, redVars, llVars, mpiVars, syncVars, hostVars, xchVars,
    passVars, chkVars, varVars, repVars, powVars, strVars, ctorVars, ordVars,
    chainVars, edgeVars, usrVars, sndVars>>

notPass == <<toolVars, redVars, llVars, mpiVars, syncVars, hostVars, xchVars,
    gridVars, chkVars, varVars, repVars, powVars, strVars, ctorVars, ordVars,
    chainVars, edgeVars, usrVars, sndVars>>

notChk == <<toolVars, redVars, llVars, mpiVars, syncVars, hostVars, xchVars,
    gridVars, passVars, varVars, repVars, powVars, strVars, ctorVars,
    ordVars, chainVars, edgeVars, usrVars, sndVars>>

notVar == <<toolVars, redVars, llVars, mpiVars, syncVars, hostVars, xchVars,
    gridVars, passVars, chkVars, repVars, powVars, strVars, ctorVars,
    ordVars, chainVars, edgeVars, usrVars, sndVars>>

notRep == <<toolVars, redVars, llVars, mpiVars, syncVars, hostVars, xchVars,
    gridVars, passVars, chkVars, varVars, powVars, strVars, ctorVars,
    ordVars, chainVars, edgeVars, usrVars, sndVars>>

notPow == <<toolVars, redVars, llVars, mpiVars, syncVars, hostVars, xchVars,
    gridVars, passVars, chkVars, varVars, repVars, strVars, ctorVars,
    ordVars, chainVars, edgeVars, usrVars, sndVars>>

notStr == <<toolVars, redVars, llVars, mpiVars, syncVars, hostVars, xchVars,
    gridVars, passVars, chkVars, varVars, repVars, powVars, ctorVars,
    ordVars, chainVars, edgeVars, usrVars, sndVars>>

notCtor == <<toolVars, redVars, llVars, mpiVars, syncVars, hostVars, xchVars,
    gridVars, passVars, chkVars, varVars, repVars, powVars, strVars, ordVars,
    chainVars, edgeVars, usrVars, sndVars>>

notOrd == <<toolVars, redVars, llVars, mpiVars, syncVars, hostVars, xchVars,
    gridVars, passVars, chkVars, varVars, repVars, powVars, strVars,
    ctorVars, chainVars, edgeVars, usrVars, sndVars>>

notChain == <<toolVars, redVars, llVars, mpiVars, syncVars, hostVars,
    xchVars, gridVars, passVars, chkVars, varVars, repVars, powVars, strVars,
    ctorVars, ordVars, edgeVars, usrVars, sndVars>>

notEdge == <<toolVars, redVars, llVars, mpiVars, syncVars, hostVars, xchVars,
    gridVars, passVars, chkVars, varVars, repVars, powVars, strVars,
    ctorVars, ordVars, chainVars, usrVars, sndVars>>

notUsr == <<toolVars, redVars, llVars, mpiVars, syncVars, hostVars, xchVars,
    gridVars, passVars, chkVars, varVars, repVars, powVars, strVars,
    ctorVars, ordVars, chainVars, edgeVars, sndVars>>

notSnd == <<toolVars, redVars, llVars, mpiVars, syncVars, hostVars, xchVars,
    gridVars, passVars, chkVars, varVars, repVars, powVars, strVars,
    ctorVars, ordVars, chainVars, edgeVars, usrVars>>

vars == <<toolVars, redVars, llVars, mpiVars, syncVars, hostVars, xchVars,
    gridVars, passVars, chkVars, varVars, repVars, powVars, strVars,
    ctorVars, ordVars, chainVars, edgeVars, usrVars, sndVars>>

(***************************************************************************)
(*                              Tool base                                  *)
(***************************************************************************)

\* Number of Tool::execute calls that create an event, per behaviour.
MaxToolEvents == 4

\* Number of Tool::execute calls of one tool that run _execute.
MaxToolIters == 2

\* The registry variables the tools of the pipeline declare.
ToolVarNames == {"x", "y", "z"}

\* The tools of the pipeline.
ToolNames == {"A", "B", "C"}

\* Tool::_vars, the dependencies each tool declared (setDependencies).
ToolDeps == [A |-> <<"x", "y">>, B |-> <<"y", "z">>, C |-> <<"x", "z", "x">>]

\* Tool::_once
ToolOnce == [A |-> FALSE, B |-> FALSE, C |-> TRUE]

\* The event each variable holds before any tool ran.
InitialEvent == [x |-> 1, y |-> 2, z |-> 3]

ToolEventIds == 1..(3 + MaxToolEvents)

\* A getEvents without the std::find: an event per dependency.
RECURSIVE CollectEventsAll(_, _, _)
CollectEventsAll(deps, events, acc) ==
    IF deps = <<>> THEN acc
    ELSE CollectEventsAll(Tail(deps), events, Append(acc, events[Head(deps)]))

\* Tool::getEvents: the events of the dependencies, in declaration order,
\* each event once.
RECURSIVE CollectEvents(_, _, _)
CollectEvents(deps, events, acc) ==
    IF deps = <<>> THEN acc
    ELSE LET event == events[Head(deps)]
         IN  IF event \in Range(acc)
             THEN CollectEvents(Tail(deps), events, acc)
             ELSE CollectEvents(Tail(deps), events, Append(acc, event))

\* A getEvents that stops one dependency short.
getEventsSkipLast(deps, events) ==
    CollectEvents(SubSeq(deps, 1, Len(deps) - 1), events, <<>>)

getEvents(deps, events) == CollectEvents(deps, events, <<>>)

\* A publication that reaches only the first dependency.
PublishFirstOnly(deps, events, event) ==
    [v \in DOMAIN events |-> IF v = Head(deps) THEN event ELSE events[v]]

\* Tool::execute, "Replace the dependencies event by the new one".
Publish(deps, events, event) ==
    [v \in DOMAIN events |-> IF v \in Range(deps) THEN event ELSE events[v]]

\* The number of calls a loop over list makes on each event: clRetainEvent
\* in Tool::getEvents, clReleaseEvent at the end of Tool::execute.
EventCount(list) ==
    [e \in ToolEventIds |-> Cardinality({i \in 1..Len(list) : list[i] = e})]

NoEventCount == [e \in ToolEventIds |-> 0]

\* A tool base that never skips.
OnceNever(once, n_iters) == FALSE

\* Tool::execute, if(_once && (_n_iters > 0)) return;
OnceDone(once, n_iters) == once /\ n_iters > 0

\* The events a set of events transitively waits on, itself included.
RECURSIVE WaitClosure(_, _)
WaitClosure(waits, S) ==
    LET T == S \cup UNION {waits[e] : e \in S \ {NULL}}
    IN  IF T = S THEN S ELSE WaitClosure(waits, T)

ToolInit ==
    /\ tEvent = InitialEvent
    /\ tWaits = [e \in ToolEventIds |-> {}]
    /\ tIters = [t \in ToolNames |-> 0]
    /\ tNextId = 4
    /\ tLastTool = ""
    /\ tLastRan = FALSE
    /\ tLastList = <<>>
    /\ tLastOut = NULL
    /\ tBefore = InitialEvent
    /\ tPublished = [v \in ToolVarNames |-> {}]
    /\ tRetained = NoEventCount
    /\ tLastRefs = [retained |-> NoEventCount, released |-> NoEventCount,
                    failed |-> FALSE]
    /\ tFailed = FALSE

\* Tool::execute of a tool that already ran and is flagged _once.
ToolExecuteSkip(t) ==
    /\ UNCHANGED notTool
    /\ ~tFailed
    /\ OnceDone(ToolOnce[t], tIters[t])
    /\ tLastTool' = t
    /\ tLastRan' = FALSE
    /\ tLastList' = <<>>
    /\ tLastOut' = NULL
    /\ tBefore' = tEvent
    /\ tLastRefs' = [retained |-> NoEventCount, released |-> NoEventCount,
                     failed |-> FALSE]
    /\ UNCHANGED <<tEvent, tWaits, tIters, tNextId, tPublished, tRetained,
                   tFailed>>

\* Tool::execute whose _execute enqueues a command on the wait list and
\* returns its event.
ToolExecuteEvent(t) ==
    /\ UNCHANGED notTool
    /\ ~tFailed
    /\ ~OnceDone(ToolOnce[t], tIters[t])
    /\ tIters[t] < MaxToolIters
    /\ tNextId \in ToolEventIds
    /\ LET events == getEvents(ToolDeps[t], tEvent)
           event == tNextId
       IN  /\ tEvent' = Publish(ToolDeps[t], tEvent, event)
           /\ tWaits' = [tWaits EXCEPT ![event] = Range(events)]
           /\ tLastList' = events
           /\ tLastRefs' = [retained |-> EventCount(events),
                            released |-> EventCount(events), failed |-> FALSE]
           /\ tLastOut' = event
           /\ tPublished' = [v \in ToolVarNames |->
                               IF v \in Range(ToolDeps[t])
                               THEN tPublished[v] \cup {event}
                               ELSE tPublished[v]]
    /\ tNextId' = tNextId + 1
    /\ tIters' = [tIters EXCEPT ![t] = tIters[t] + 1]
    /\ tLastTool' = t
    /\ tLastRan' = TRUE
    /\ tBefore' = tEvent
    /\ UNCHANGED <<tRetained, tFailed>>

\* Tool::execute whose _execute returns NULL.
ToolExecuteNull(t) ==
    /\ UNCHANGED notTool
    /\ ~tFailed
    /\ ~OnceDone(ToolOnce[t], tIters[t])
    /\ tIters[t] < MaxToolIters
    /\ LET events == getEvents(ToolDeps[t], tEvent)
       IN  /\ tLastList' = events
           /\ tLastRefs' = [retained |-> EventCount(events),
                            released |-> EventCount(events), failed |-> FALSE]
    /\ tLastOut' = NULL
    /\ tIters' = [tIters EXCEPT ![t] = tIters[t] + 1]
    /\ tLastTool' = t
    /\ tLastRan' = TRUE
    /\ tBefore' = tEvent
    /\ UNCHANGED <<tEvent, tWaits, tNextId, tPublished, tRetained, tFailed>>

\* Tool::execute whose _execute throws: the exception leaves execute from the
\* call of _execute, past the release of the wait list and past
\* addElapsedTime, and ends the run.
ToolExecuteThrow(t) ==
    /\ UNCHANGED notTool
    /\ ~tFailed
    /\ ~OnceDone(ToolOnce[t], tIters[t])
    /\ tIters[t] < MaxToolIters
    /\ LET events == getEvents(ToolDeps[t], tEvent)
       IN  /\ tLastList' = events
           /\ tLastRefs' = [retained |-> EventCount(events),
                            released |-> NoEventCount, failed |-> TRUE]
           /\ tRetained' = [e \in ToolEventIds |->
                               tRetained[e] + EventCount(events)[e]]
    /\ tFailed' = TRUE
    /\ tLastOut' = NULL
    /\ tLastTool' = t
    /\ tLastRan' = TRUE
    /\ tBefore' = tEvent
    /\ UNCHANGED <<tEvent, tWaits, tIters, tNextId, tPublished>>

ToolNext ==
    \/ \E t \in ToolNames : ToolExecuteSkip(t)
    \/ \E t \in ToolNames : ToolExecuteEvent(t)
    \/ \E t \in ToolNames : ToolExecuteNull(t)
    \/ \E t \in ToolNames : ToolExecuteThrow(t)

(***************************************************************************)
(*                              Reduction                                  *)
(***************************************************************************)

\* Longest input array of a reduction.
MaxArrayLen == 4

\* Number of Reduction::execute calls per behaviour.
MaxRedExecs == 2

\* Number of buffers the input variable of a reduction goes through.
MaxBuffers == 2

\* Width of unsigned int in the model (32 bits in the program; the model
\* keeps the wrap-around at a width the checker's integers can hold).
WordBits == 16

Word == 2 ^ WordBits

\* The values an element of the input array takes.
RedValues == 0..2

\* The work-group sizes clGetKernelWorkGroupInfo reports, scaled down so
\* that arrays of MaxArrayLen elements need several passes.
DeviceLocalSizes == {2, 3, 4}

\* The operations (with their identity IDENTITY) of the reductions built in
\* the sources: sums (MPISync), min and max (LinkList), and a
\* non-commutative associative one, "right" (the rightmost non-null value).
RedOps == {"add", "max", "min", "right"}

Identity(op) ==
    CASE op = "add" -> 0
      [] op = "max" -> -9
      [] op = "min" -> 9
      [] op = "right" -> 0

\* T reduce(T a, T b) { T c; <operation>; return c; }
reduce(op, a, b) ==
    CASE op = "add" -> a + b
      [] op = "max" -> Max2(a, b)
      [] op = "min" -> Min2(a, b)
      [] op = "right" -> IF b = 0 THEN a ELSE b

\* Bitwise and of two naturals.
RECURSIVE BitAnd(_, _)
BitAnd(a, b) ==
    IF a = 0 \/ b = 0 THEN 0
    ELSE (a % 2) * (b % 2) + 2 * BitAnd(a \div 2, b \div 2)

\* isPowerOf2: ((n & (n - 1)) == 0), on unsigned int.
isPowerOf2(n) == IF BitAnd(n, (n - 1) % Word) = 0 THEN 1 ELSE 0

\* The loop of nextPowerOf2; -1 stands for a loop that never ends (p wrapped
\* to zero).
RECURSIVE NextPowerLoop(_, _)
NextPowerLoop(p, n) ==
    IF ~(p < n) THEN p
    ELSE IF p = 0 THEN -1
    ELSE NextPowerLoop((2 * p) % Word, n)

\* nextPowerOf2: "if (n & !(n & (n - 1))) return n;" and then the loop.
nextPowerOf2(n) ==
    IF BitAnd(n, IF BitAnd(n, (n - 1) % Word) = 0 THEN 1 ELSE 0) # 0
    THEN n
    ELSE NextPowerLoop(1, n)

\* A roundUp that rounds down.
roundDown(n, divisor) == n - (n % divisor)

\* roundUp: the next multiple of divisor, on unsigned int.
roundUp(n, divisor) ==
    LET rest == n % divisor
    IN  IF rest # 0 THEN ((n - rest) + divisor) % Word ELSE n

\* Reduction::setupOpenCL, the local size taken from the device's one.
LocalSize(max_local_size) ==
    IF isPowerOf2(max_local_size) = 0
    THEN nextPowerOf2(max_local_size) \div 2
    ELSE max_local_size

\* Reduction::setupOpenCL, the loop "while (n > 1)": the _n of every pass.
RECURSIVE PassSizes(_, _)
PassSizes(n, local_size) ==
    IF ~(n > 1) THEN <<>>
    ELSE <<n>> \o PassSizes(roundUp(n, local_size) \div local_size, local_size)

\* _number_groups of the pass that reduces n elements.
NumberGroups(n, local_size) == roundUp(n, local_size) \div local_size

\* The reduction kernel on one work group: a tree over local_size slots
\* starting at slot lo (1-based), slots beyond n holding IDENTITY.
RECURSIVE GroupTree(_, _, _, _, _)
GroupTree(op, input, n, lo, len) ==
    IF len = 1
    THEN IF lo <= n THEN input[lo] ELSE Identity(op)
    ELSE reduce(op,
                GroupTree(op, input, n, lo, len \div 2),
                GroupTree(op, input, n, lo + len \div 2, len \div 2))

\* The reduction kernel: one output element per work group.
KernelReduction(op, input, n, local_size) ==
    [g \in 1..NumberGroups(n, local_size) |->
        GroupTree(op, input, n, (g - 1) * local_size + 1, local_size)]

\* fold(a, op, e), left to right.
RECURSIVE Fold(_, _, _)
Fold(op, a, acc) ==
    IF a = <<>> THEN acc ELSE Fold(op, Tail(a), reduce(op, acc, Head(a)))

\* Reduction::_execute, the loop over _kernels: pass i reads _mems[i] and
\* writes _mems[i + 1]. Returns the device memory after the passes.
RECURSIVE RunPasses(_, _, _, _, _)
RunPasses(op, mem, sizes, local_size, i) ==
    IF i > Len(sizes) THEN mem
    ELSE RunPasses(op,
                   [mem EXCEPT ![i + 1] =
                       KernelReduction(op, mem[i], sizes[i], local_size)],
                   sizes, local_size, i + 1)

RedCalls == 1..MaxRedExecs

RedArrays == UNION {[1..n -> RedValues] : n \in 1..MaxArrayLen}

\* Reduction::setup on an input array a, an operation and a device.
RedSetup(a, op, max_local_size) ==
    LET local_size == LocalSize(max_local_size)
        sizes == PassSizes(Len(a), local_size)
    IN  /\ rOp = op
        /\ rLocalSize = local_size
        /\ rN = sizes
        /\ rMem = [i \in 1..(Len(sizes) + 1) |->
                     IF i = 1 THEN a
                     ELSE [g \in 1..NumberGroups(sizes[i - 1], local_size)
                             |-> 0]]

\* Reduction::setup, _input = *(cl_mem*)_input_var->get(): the first kernel
\* is bound to the buffer the input variable has at setup.
RedBound(a) ==
    /\ rVarBuf = 1
    /\ rVarData = a
    /\ rInput = 1
    /\ rLastRead = [arg |-> NULL, var |-> NULL]
    /\ rFault = FALSE
    /\ rReadStatus = [k \in RedCalls |-> "none"]

RedInit ==
    /\ \E a \in RedArrays, op \in RedOps, m \in DeviceLocalSizes :
           RedSetup(a, op, m) /\ RedBound(a)
    /\ rOutput = 0
    /\ rPopulated = 0
    /\ rExecs = 0
    /\ rUserEvent = 0
    /\ rUserStatus = [k \in RedCalls |-> "none"]
    /\ rMarker = [k \in RedCalls |-> "none"]
    /\ rCallback = [k \in RedCalls |-> "none"]
    /\ rDirty = FALSE

\* The subsystem left alone by the other specifications.
RedIdle ==
    /\ RedSetup(<<0>>, "add", 2)
    /\ RedBound(<<0>>)
    /\ rOutput = 0
    /\ rPopulated = 0
    /\ rExecs = 0
    /\ rUserEvent = 0
    /\ rUserStatus = [k \in RedCalls |-> "none"]
    /\ rMarker = [k \in RedCalls |-> "none"]
    /\ rCallback = [k \in RedCalls |-> "none"]
    /\ rDirty = FALSE

\* A tool upstream of the reduction rewrites one element of the input.
RedUpstreamWrite ==
    /\ UNCHANGED notRed
    /\ rExecs < MaxRedExecs
    /\ \E i \in DOMAIN rVarData, v \in RedValues :
           /\ rVarData[i] # v
           /\ rVarData' = [rVarData EXCEPT ![i] = v]
           /\ rMem' = IF rInput = rVarBuf
                      THEN [rMem EXCEPT ![1][i] = v]
                      ELSE rMem
    /\ rDirty' = TRUE
    /\ UNCHANGED <<rOp, rLocalSize, rN, rOutput, rPopulated, rExecs,
                   rUserEvent, rUserStatus, rMarker, rCallback>>
    /\ UNCHANGED <<rVarBuf, rInput, rLastRead, rFault, rReadStatus>>

\* A tool upstream of the reduction reallocates the input variable: the
\* variable gets a new buffer, the replaced one keeps what it held.
RedUpstreamReallocate ==
    /\ UNCHANGED notRed
    /\ rExecs < MaxRedExecs
    /\ rVarBuf < MaxBuffers
    /\ rVarBuf' = rVarBuf + 1
    /\ \E a \in RedArrays :
           /\ Len(a) = Len(rVarData)
           /\ a # rVarData
           /\ rVarData' = a
    /\ rDirty' = TRUE
    /\ UNCHANGED <<rOp, rLocalSize, rN, rMem, rOutput, rPopulated, rExecs,
                   rUserEvent, rUserStatus, rMarker, rCallback>>
    /\ UNCHANGED <<rInput, rLastRead, rFault, rReadStatus>>

\* The device is about to terminate the next read-back abnormally.
RedDeviceFault ==
    /\ UNCHANGED notRed
    /\ rExecs < MaxRedExecs
    /\ ~rFault
    /\ rFault' = TRUE
    /\ UNCHANGED <<rOp, rLocalSize, rN, rMem, rOutput, rPopulated, rExecs,
                   rUserEvent, rUserStatus, rMarker, rCallback, rDirty>>
    /\ UNCHANGED <<rVarBuf, rVarData, rInput, rLastRead, rReadStatus>>

\* The command queue is in order: the passes and the blocking read of a call
\* sit behind the marker of the previous call, and the read returns only
\* once that marker has completed.
RedQueueDrained == rExecs > 0 => rMarker[rExecs] \in {"complete", "error"}

\* Reduction::execute.
RedExecute ==
    /\ UNCHANGED notRed
    /\ rExecs < MaxRedExecs
    /\ RedQueueDrained
    /\ LET k == rExecs + 1
           mem == RunPasses(rOp, rMem, rN, rLocalSize, 1)
           status == IF rFault THEN "error" ELSE "complete"
       IN  \* the passes run on the buffers the kernels were bound to at
           \* setup: nothing in _execute looks at _input_var->get()
           /\ rMem' = mem
           /\ rLastRead' = [arg |-> rInput, var |-> rVarBuf]
           \* clEnqueueReadBuffer(_mems.at(_mems.size() - 1), CL_TRUE, ...)
           /\ rOutput' = IF rFault THEN rOutput ELSE mem[Len(mem)][1]
           /\ rReadStatus' = [rReadStatus EXCEPT ![k] = status]
           /\ rFault' = FALSE
           /\ rExecs' = k
           \* clCreateUserEvent, clSetEventCallback, the marker on top
           /\ rUserEvent' = k
           /\ rUserStatus' = [rUserStatus EXCEPT ![k] = "submitted"]
           /\ rCallback' = [rCallback EXCEPT ![k] = "registered"]
           /\ rMarker' = [rMarker EXCEPT ![k] = "queued"]
           /\ rDirty' = (rInput # rVarBuf \/ rFault)
    /\ UNCHANGED <<rOp, rLocalSize, rN, rPopulated>>
    /\ UNCHANGED <<rVarBuf, rVarData, rInput>>

\* A populator that signals the user event before it populates.
PopulatorSignalEarly(k) ==
    /\ UNCHANGED notRed
    /\ rCallback[k] = "registered"
    /\ rReadStatus[k] = "complete"
    /\ rUserStatus' = [rUserStatus EXCEPT ![rUserEvent] = "complete"]
    /\ UNCHANGED <<rOp, rLocalSize, rN, rMem, rOutput, rPopulated, rExecs,
                   rUserEvent, rCallback, rMarker, rDirty>>
    /\ UNCHANGED redEnvVars

\* A populator that returns on an error status without a word.
PopulatorErrorSilent(k) ==
    /\ UNCHANGED notRed
    /\ rCallback[k] = "registered"
    /\ rReadStatus[k] = "error"
    /\ rCallback' = [rCallback EXCEPT ![k] = "done"]
    /\ UNCHANGED <<rOp, rLocalSize, rN, rMem, rOutput, rPopulated, rExecs,
                   rUserEvent, rUserStatus, rMarker, rDirty>>
    /\ UNCHANGED redEnvVars

\* populator, if (event_command_status != CL_COMPLETE): no populate, the
\* status is passed on to the user event the tool holds, which is released.
PopulatorError(k) ==
    /\ UNCHANGED notRed
    /\ rCallback[k] = "registered"
    /\ rReadStatus[k] = "error"
    /\ rUserStatus' = [rUserStatus EXCEPT ![rUserEvent] = rReadStatus[k]]
    /\ rCallback' = [rCallback EXCEPT ![k] = "done"]
    /\ UNCHANGED <<rOp, rLocalSize, rN, rMem, rOutput, rPopulated, rExecs,
                   rUserEvent, rMarker, rDirty>>
    /\ UNCHANGED redEnvVars

\* populator, first half: vars->populate(var).
PopulatorPopulate(k) ==
    /\ UNCHANGED notRed
    /\ rCallback[k] = "registered"
    /\ rReadStatus[k] = "complete"
    /\ rPopulated' = rOutput
    /\ rCallback' = [rCallback EXCEPT ![k] = "populated"]
    /\ UNCHANGED <<rOp, rLocalSize, rN, rMem, rOutput, rExecs, rUserEvent,
                   rUserStatus, rMarker, rDirty>>
    /\ UNCHANGED redEnvVars

\* populator, second half: clSetUserEventStatus(tool->getUserEvent(),
\* CL_COMPLETE), on the user event the tool holds at that moment.
PopulatorSignal(k) ==
    /\ UNCHANGED notRed
    /\ rCallback[k] = "populated"
    /\ rUserStatus' = [rUserStatus EXCEPT ![rUserEvent] = "complete"]
    /\ rCallback' = [rCallback EXCEPT ![k] = "done"]
    /\ UNCHANGED <<rOp, rLocalSize, rN, rMem, rOutput, rPopulated, rExecs,
                   rUserEvent, rMarker, rDirty>>
    /\ UNCHANGED redEnvVars

\* The device completes the marker once the user event it waits on has.
RedMarkerComplete(k) ==
    /\ UNCHANGED notRed
    /\ rMarker[k] = "queued"
    /\ rUserStatus[k] = "complete"
    /\ rMarker' = [rMarker EXCEPT ![k] = "complete"]
    /\ UNCHANGED <<rOp, rLocalSize, rN, rMem, rOutput, rPopulated, rExecs,
                   rUserEvent, rUserStatus, rCallback, rDirty>>
    /\ UNCHANGED redEnvVars

\* The device terminates the marker once the user event it waits on was set
\* to an error status.
RedMarkerError(k) ==
    /\ UNCHANGED notRed
    /\ rMarker[k] = "queued"
    /\ rUserStatus[k] = "error"
    /\ rMarker' = [rMarker EXCEPT ![k] = "error"]
    /\ UNCHANGED <<rOp, rLocalSize, rN, rMem, rOutput, rPopulated, rExecs,
                   rUserEvent, rUserStatus, rCallback, rDirty>>
    /\ UNCHANGED redEnvVars

RedNext ==
    \/ RedUpstreamWrite
    \/ RedExecute
    \/ \E k \in RedCalls : PopulatorPopulate(k)
    \/ \E k \in RedCalls : PopulatorSignal(k)
    \/ \E k \in RedCalls : RedMarkerComplete(k)

\* What the callback thread and the device do on their own.
RedAsync ==
    \/ \E k \in RedCalls : PopulatorPopulate(k)
    \/ \E k \in RedCalls : PopulatorSignal(k)
    \/ \E k \in RedCalls : PopulatorError(k)
    \/ \E k \in RedCalls : RedMarkerComplete(k)
    \/ \E k \in RedCalls : RedMarkerError(k)

\* The reduction in a pipeline whose upstream tools reallocate the input
\* and on a device that may fail.
RedEnvNext ==
    \/ RedUpstreamWrite
    \/ RedUpstreamReallocate
    \/ RedDeviceFault
    \/ RedExecute
    \/ RedAsync

\* The inputs of that pipeline: sums over arrays of two elements.
RedEnvInit ==
    /\ \E a \in [1..2 -> RedValues] : RedSetup(a, "add", 2) /\ RedBound(a)
    /\ rOutput = 0
    /\ rPopulated = 0
    /\ rExecs = 0
    /\ rUserEvent = 0
    /\ rUserStatus = [k \in RedCalls |-> "none"]
    /\ rMarker = [k \in RedCalls |-> "none"]
    /\ rCallback = [k \in RedCalls |-> "none"]
    /\ rDirty = FALSE

(***************************************************************************)
(*                              Link-List                                  *)
(***************************************************************************)

\* LinkList::execute calls explored.
MaxLLExecs == 3

\* Commands a downstream tool may leave pending in the command queue.
MaxLLQueue == 3

\* The cl_mem handles clCreateBuffer may hand out (a released one may be
\* handed out again).
Handles == 1..2

\* CL_KERNEL_WORK_GROUP_SIZE of the iHoc kernel.
IhocLws == 4

\* support * h (zero when the support or h is zero)
CellLengths == {0, 1, 2}

\* Results of the r_min and r_max reductions.
MinPositions == {<<0, 0>>, <<1, 0>>}

MaxPositions == {<<1, 1>>, <<2, 1>>, <<2, 2>>}

\* The cells of guard added per axis.
GuardCells == 6

\* A LinkList::nCells that takes the 2D branch in every build.
nCellsBuildFlat(pos_min, pos_max, cell_length, have_3d) ==
    LET x == (((pos_max[1] - pos_min[1]) \div cell_length) + GuardCells) % Word
        y == (((pos_max[2] - pos_min[2]) \div cell_length) + GuardCells) % Word
    IN  <<x, y, 1, (x * y) % Word>>

\* LinkList::nCells of either build, on unsigned int: the conversion
\* (unsigned int) truncates the quotient, which is never negative.
nCellsBuild(pos_min, pos_max, cell_length, have_3d) ==
    LET x == (((pos_max[1] - pos_min[1]) \div cell_length) + GuardCells) % Word
        y == (((pos_max[2] - pos_min[2]) \div cell_length) + GuardCells) % Word
        z == IF have_3d
             THEN (((pos_max[3] - pos_min[3]) \div cell_length) + GuardCells) % Word
             ELSE 1
    IN  <<x, y, z, (x * y * z) % Word>>

\* LinkList::nCells of the 2D build.
nCells(pos_min, pos_max, cell_length) ==
    nCellsBuild(pos_min, pos_max, cell_length, FALSE)

Kernels == {"iHoc", "iCell", "linkList"}

\* _ihoc_vars, _icell_vars and _ll_vars.
KernelVars ==
    [iHoc     |-> <<"ihoc", "N", "n_cells">>,
     iCell    |-> <<"icell", "r", "N", "n_radix", "r_min", "support", "h",
                    "n_cells">>,
     linkList |-> <<"icell", "ihoc", "N">>]

RegistryNames ==
    {"ihoc", "N", "n_cells", "icell", "r", "n_radix", "r_min", "support", "h"}

\* The bytes Variable::get_async() gives for each variable.
Registry(n_cells, ihoc, r_min) ==
    [v \in RegistryNames |->
        CASE v = "ihoc"    -> <<ihoc>>
          [] v = "n_cells" -> n_cells
          [] v = "r_min"   -> r_min
          [] OTHER         -> <<1>>]

\* Variant of setVariablesArgs that binds nothing.
setVariablesArgsKeep(kargs, shadow, reg) == kargs

\* LinkList::setVariables, the clSetKernelArg calls: a slot is bound again
\* only when the registry differs from the shadow copy.
setVariablesArgs(kargs, shadow, reg) ==
    [k \in Kernels |->
        [i \in DOMAIN KernelVars[k] |->
            IF reg[KernelVars[k][i]] = shadow[k][i]
            THEN kargs[k][i]
            ELSE reg[KernelVars[k][i]]]]

\* A LinkList::setVariables that never refreshes the shadow copies.
setVariablesShadowKeep(shadow, reg) == shadow

\* LinkList::setVariables, the memcpy calls on the shadow copies.
setVariablesShadow(shadow, reg) ==
    [k \in Kernels |->
        [i \in DOMAIN KernelVars[k] |->
            IF reg[KernelVars[k][i]] = shadow[k][i]
            THEN shadow[k][i]
            ELSE reg[KernelVars[k][i]]]]

\* LinkList::setupOpenCL binds every slot and copies it.
setupArgs(reg) ==
    [k \in Kernels |-> [i \in DOMAIN KernelVars[k] |-> reg[KernelVars[k][i]]]]

\* The buffer (handle and creation count) behind a handle.
BufferOf(h, gen) == IF h = 0 THEN <<0, 0>> ELSE <<h, gen[h]>>

\* A command of the queue: the buffer its kernel was bound to and whether
\* its event was registered on n_cells (as a reader or as the writer).
Command(kind, buf, registered) ==
    [kind |-> kind, buf |-> buf, ncells |-> registered]

\* The commands of a queue whose event is registered on n_cells.
PendingRegistered(queue) ==
    Cardinality({i \in DOMAIN queue : queue[i].ncells})

\* The commands of a queue bound to a buffer.
PendingUsers(queue, buf) ==
    Cardinality({i \in DOMAIN queue : queue[i].buf = buf})

LLNoCall ==
    [realloc |-> FALSE, required |-> <<0, 0, 0, 0>>, old |-> <<0, 0>>,
     registered |-> FALSE, used |-> FALSE, pendingAtWrite |-> 0,
     pendingAtRelease |-> 0, launch |-> setupArgs(Registry(<<0, 0, 0, 0>>, 0, <<0, 0>>))]

\* LinkList::setup.
LLSetup(cell_length) ==
    /\ llPc = "idle"
    /\ llQueue = <<>>
    /\ llCellLength = cell_length
    /\ llNCells = <<0, 0, 0, 0>>
    /\ llIhoc = 0
    /\ llRMin = <<0, 0>>
    /\ llBuf = [h \in Handles |-> -1]
    /\ llGen = [h \in Handles |-> 0]
    /\ llIhocGws = roundUp(0, IhocLws)
    /\ llKArgs = setupArgs(Registry(<<0, 0, 0, 0>>, 0, <<0, 0>>))
    /\ llShadow = setupArgs(Registry(<<0, 0, 0, 0>>, 0, <<0, 0>>))
    /\ llExecs = 0
    /\ llUsed = FALSE
    /\ llRegistered = FALSE
    /\ llLast = LLNoCall

LLInit == \E cell_length \in CellLengths : LLSetup(cell_length)

LLIdle == LLSetup(1)

\* Variant of LLHostWaitDone that does not wait.
LLHostWaitSkipped(queue) == TRUE

\* clWaitForEvents on the writing events of r_min and r_max returns.
LLHostWaitDone(queue) == \A i \in DOMAIN queue : queue[i].kind # "reduction"

\* LinkList::_execute up to the host wait: the two reductions are enqueued.
LLExecuteBegin ==
    /\ UNCHANGED notLL
    /\ llPc = "idle"
    /\ llExecs < MaxLLExecs
    /\ llPc' = "wait"
    /\ llQueue' = llQueue \o <<Command("reduction", <<0, 0>>, FALSE),
                               Command("reduction", <<0, 0>>, FALSE)>>
    /\ UNCHANGED <<llCellLength, llNCells, llIhoc, llRMin, llBuf, llGen,
                   llIhocGws, llKArgs, llShadow, llExecs, llUsed,
                   llRegistered, llLast>>

\* The device completes the command at the head of the in-order queue.
LLDeviceComplete ==
    /\ UNCHANGED notLL
    /\ llQueue # <<>>
    /\ llQueue' = Tail(llQueue)
    /\ UNCHANGED <<llPc, llCellLength, llNCells, llIhoc, llRMin, llBuf, llGen,
                   llIhocGws, llKArgs, llShadow, llExecs, llUsed,
                   llRegistered, llLast>>

\* A LinkList::_execute that finds the zero cell length only after allocate().
LLExecuteThrowLate ==
    /\ UNCHANGED notLL
    /\ llPc = "wait"
    /\ LLHostWaitDone(llQueue)
    /\ llCellLength = 0
    /\ llPc' = "failed"
    /\ llNCells' = <<GuardCells, GuardCells, 1, GuardCells * GuardCells>>
    /\ llIhoc' = 1
    /\ llBuf' = [llBuf EXCEPT ![1] = GuardCells * GuardCells]
    /\ llGen' = [llGen EXCEPT ![1] = @ + 1]
    /\ UNCHANGED <<llQueue, llCellLength, llRMin, llIhocGws, llKArgs, llShadow,
                   llExecs, llUsed, llRegistered, llLast>>

\* LinkList::_execute from nCells() on when _cell_length is zero: nCells()
\* throws "Invalid number of cells" at its first statement, the exception
\* leaves _execute before allocate(), setVariables() and the three
\* clEnqueueNDRangeKernel calls, and ends the run.
LLExecuteThrow ==
    /\ UNCHANGED notLL
    /\ llPc = "wait"
    /\ LLHostWaitDone(llQueue)
    /\ llCellLength = 0
    /\ llPc' = "failed"
    /\ UNCHANGED <<llQueue, llCellLength, llNCells, llIhoc, llRMin, llBuf,
                   llGen, llIhocGws, llKArgs, llShadow, llExecs, llUsed,
                   llRegistered, llLast>>

\* LinkList::_execute from nCells() on, and the publication of its out-event
\* by Tool::execute: nCells, allocate, setVariables, then the iCell, sort,
\* iHoc and linkList commands.
LLExecuteRest ==
    /\ UNCHANGED notLL
    /\ llPc = "wait"
    /\ LLHostWaitDone(llQueue)
    /\ llCellLength # 0
    /\ \E pos_min \in MinPositions, pos_max \in MaxPositions, mem \in Handles :
         LET _n_cells == nCells(pos_min, pos_max, llCellLength)
             realloc  == ~(_n_cells[4] <= llNCells[4])
             old      == BufferOf(llIhoc, llGen)
             released == IF realloc /\ llIhoc # 0
                         THEN [llBuf EXCEPT ![llIhoc] = -1] ELSE llBuf
             n_cells  == IF realloc THEN _n_cells
                         ELSE <<_n_cells[1], _n_cells[2], _n_cells[3], llNCells[4]>>
             ihoc     == IF realloc THEN mem ELSE llIhoc
             gen      == IF realloc THEN [llGen EXCEPT ![mem] = @ + 1] ELSE llGen
             reg      == Registry(n_cells, ihoc, pos_min)
             kargs    == setVariablesArgs(llKArgs, llShadow, reg)
         IN  \* clCreateBuffer hands out a handle with no buffer behind it
             /\ IF realloc THEN released[mem] = -1 ELSE mem = 1
             /\ llNCells' = n_cells
             /\ llIhoc' = ihoc
             /\ llRMin' = pos_min
             /\ llBuf' = IF realloc THEN [released EXCEPT ![mem] = _n_cells[4]]
                         ELSE llBuf
             /\ llGen' = gen
             /\ llIhocGws' = IF realloc THEN roundUp(_n_cells[4], IhocLws)
                             ELSE llIhocGws
             /\ llKArgs' = kargs
             /\ llShadow' = setVariablesShadow(llShadow, reg)
             /\ llQueue' = llQueue \o
                    <<Command("iCell", <<0, 0>>, TRUE),
                      Command("sort", <<0, 0>>, FALSE),
                      Command("iHoc", BufferOf(kargs["iHoc"][1][1], gen), FALSE),
                      Command("linkList", BufferOf(kargs["linkList"][2][1], gen), TRUE)>>
             /\ llUsed' = TRUE
             /\ llRegistered' = TRUE
             /\ llLast' =
                    [realloc          |-> realloc,
                     required         |-> _n_cells,
                     old              |-> old,
                     registered       |-> llRegistered,
                     used             |-> llUsed,
                     pendingAtWrite   |-> PendingRegistered(llQueue),
                     pendingAtRelease |-> IF realloc /\ llIhoc # 0
                                          THEN PendingUsers(llQueue, old) ELSE 0,
                     launch           |-> kargs]
    /\ llPc' = "idle"
    /\ llExecs' = llExecs + 1
    /\ UNCHANGED llCellLength

\* A later tool of the pipeline enqueues a kernel bound to ihoc and n_cells
\* and registers its event on both.
LLDownstream ==
    /\ UNCHANGED notLL
    /\ llPc = "idle"
    /\ llExecs > 0
    /\ Len(llQueue) < MaxLLQueue
    /\ llQueue' = Append(llQueue, Command("downstream", BufferOf(llIhoc, llGen), TRUE))
    /\ llUsed' = TRUE
    /\ llRegistered' = TRUE
    /\ UNCHANGED <<llPc, llCellLength, llNCells, llIhoc, llRMin, llBuf, llGen,
                   llIhocGws, llKArgs, llShadow, llExecs, llLast>>

LLNext ==
    \/ LLExecuteBegin
    \/ LLDeviceComplete
    \/ LLExecuteRest
    \/ LLExecuteThrow
    \/ LLDownstream


(***************************************************************************)
(*                               MPISync                                   *)
(***************************************************************************)

\* MPISync::execute calls explored.
MaxMPIIters == 1

\* The largest number of particles a peer sends in one iteration.
MaxCount == 1

\* The fields a tool may declare.
MaxFields == 2

\* The peer lists the constructor may leave (this process has rank 0).
ProcLists == {<<>>, <<1>>, <<1, 2>>}

Peers == {1, 2}

FieldCounts == 0..MaxFields

\* The registry variables of the tool: the mask (0) and the fields (1..).
MPIVars == 0..MaxFields

\* MPISync::variables, the dependencies: the fields, then the mask.
MPIDeps(F) == [j \in 1..(F + 1) |-> IF j <= F THEN j ELSE 0]

\* Events are numbered by iteration: the commands of the main queue, the
\* event of the reset of __mpi_offset, the user events of each receiver.
SortEvent(it) == 100 * it + 1

UnSortEvent(it, field) == 100 * it + 1 + field

NOffsetKernelEvent(it, s) == 100 * it + 10 + s

NSendKernelEvent(it, s) == 100 * it + 14 + s

MaskReinitEvent(it) == 100 * it + 8

DownstreamEvent(it) == 100 * it + 9

ResetEvent(it) == 100 * it + 10

UserEvent(it, k, i) == 100 * it + 20 * k + i

\* The event a variable holds before any tool ran.
MPIInitialEvent(v) == 1 + v

IsResetEvent(e) == e >= 100 /\ e % 100 = 10

IsUserEvent(e) == e >= 100 /\ e % 100 >= 20

IsMaskReinitEvent(e) == e >= 100 /\ e % 100 = 8

\* Events of commands of the device complete without the host; the two
\* resets and the user events complete when the model says so.
IsComplete(e, done) ==
    (IsResetEvent(e) \/ IsMaskReinitEvent(e) \/ IsUserEvent(e)) => e \in done

\* RadixSort::execute on the mask publishes its event on the mask.
SortPublish(events, it) == [events EXCEPT ![0] = SortEvent(it)]

\* UnSort::execute of every field sorter publishes its event on the field.
FieldSortPublish(events, it, F) ==
    [v \in DOMAIN events |->
        IF v \in 1..F THEN UnSortEvent(it, v) ELSE events[v]]

\* MPISync::Sender::execute, the events it sets on the mask.
SenderPublish(events, it, s) ==
    LET first == [events EXCEPT ![0] = NOffsetKernelEvent(it, s)]
    IN  [first EXCEPT ![0] = NSendKernelEvent(it, s)]

RECURSIVE SendersPublish(_, _, _, _)
SendersPublish(events, it, s, n) ==
    IF s > n THEN events
    ELSE SendersPublish(SenderPublish(events, it, s), it, s + 1, n)

\* Set::execute of _mask_reinit publishes its event on the mask.
MaskReinitPublish(events, it) == [events EXCEPT ![0] = MaskReinitEvent(it)]

\* A second queue that runs its commands in any order.
SecondQueueAny(queue) == Range(queue)

\* CalcServer::command_queue(true): the command that may complete next, the
\* oldest one.
SecondQueueReady(queue) == IF queue = <<>> THEN {} ELSE {Head(queue)}

\* A main queue that lets a marker complete before the commands in front.
MainQueueBeforeNone(it) == {}

\* The commands MPISync::_execute enqueues in the main queue in front of the
\* markers of the receivers and that the model completes by a step of its
\* own: the reset of the mask.
MainQueueBefore(it) == {MaskReinitEvent(it)}

\* A wait list with the event of __mpi_offset alone.
ReceiverWaitListOffset(events, offset_event, F) == <<offset_event>>

\* A wait list without the event of __mpi_offset.
ReceiverWaitListFields(events, offset_event, F) == [i \in 1..F |-> events[i]]

\* MPISync::Receiver::execute, the wait list of the marker.
ReceiverWaitList(events, offset_event, F) ==
    <<offset_event>> \o [i \in 1..F |-> events[i]]

\* MPISync::Receiver::execute, the loop that creates the user events: i runs
\* over 0 .. _fields.size() + 1; the branch of the mask also runs for every
\* field, as the second if carries the else.
RECURSIVE ReceiverLock(_, _, _, _, _)
ReceiverLock(st, it, k, F, i) ==
    IF i >= F + 2 THEN st
    ELSE LET user_event == UserEvent(it, k, i)
             s1 == IF i < F
                   THEN [st EXCEPT !.events[i + 1] = user_event,
                                   !.field_events[i + 1] = user_event]
                   ELSE st
             s2 == IF i = F
                   THEN [s1 EXCEPT !.offset = user_event,
                                   !.offset_event = user_event]
                   ELSE [s1 EXCEPT !.events[0] = user_event,
                                   !.mask_event = user_event]
         IN  ReceiverLock(s2, it, k, F, i + 1)

\* The user events Receiver::execute creates in one call.
ReceiverUserEvents(r, F) ==
    {r.offset_event, r.mask_event} \cup {r.field_events[i] : i \in 1..F}

\* A receiver that did not run in this iteration.
NoReceiver ==
    [pc |-> "none", proc |-> 0, waits |-> {}, field_events |-> [f \in 1..MaxFields |-> NULL],
     offset_event |-> NULL, mask_event |-> NULL, entry |-> 0, n |-> 0,
     stored |-> 0, i |-> 0]

\* MPISync::Receiver::execute: the marker, the user data, the user events.
\* st carries the events of the variables, the event of __mpi_offset and the
\* receivers armed so far.
ReceiverExecute(st, it, k, proc, F) ==
    LET waits  == ReceiverWaitList(st.events, st.offset, F)
        locked == ReceiverLock([events |-> st.events, offset |-> st.offset,
                                field_events |-> [f \in 1..MaxFields |-> NULL],
                                offset_event |-> NULL, mask_event |-> NULL],
                               it, k, F, 0)
    IN  [events |-> locked.events,
         offset |-> locked.offset,
         recv   |-> [st.recv EXCEPT ![k] =
                        [NoReceiver EXCEPT !.pc = "armed", !.proc = proc,
                                           !.waits = Range(waits),
                                           !.field_events = locked.field_events,
                                           !.offset_event = locked.offset_event,
                                           !.mask_event = locked.mask_event]]]

RECURSIVE ReceiversExecute(_, _, _, _, _)
ReceiversExecute(st, it, k, procs, F) ==
    IF k > Len(procs) THEN st
    ELSE ReceiversExecute(ReceiverExecute(st, it, k, procs[k], F), it, k + 1, procs, F)

\* An MPISync::_execute that resets before it sends.
MPISyncExecuteResetFirst(events, it, procs, F) ==
    LET sorted   == FieldSortPublish(SortPublish(events, it), it, F)
        reinit   == MaskReinitPublish(sorted, it)
        sent     == SendersPublish(reinit, it, 1, Len(procs))
        received == ReceiversExecute([events |-> sent,
                                      offset |-> ResetEvent(it),
                                      recv |-> [k \in Peers |-> NoReceiver]],
                                     it, 1, procs, F)
    IN  [events |-> received.events, offset |-> received.offset,
         recv |-> received.recv, mask_reset_waits |-> sorted[0],
         calls |-> <<"sort">> \o [i \in 1..F |-> "sorter"]
                       \o <<"offset reset", "mask reset">>
                       \o [s \in 1..Len(procs) |-> "sender"]
                       \o [k \in 1..Len(procs) |-> "receiver"]]

\* MPISync::_execute with at least one peer, on the events of the variables:
\* sort, field sorters, senders, the two resets, receivers.
MPISyncExecute(events, it, procs, F) ==
    LET sorted   == FieldSortPublish(SortPublish(events, it), it, F)
        sent     == SendersPublish(sorted, it, 1, Len(procs))
        reinit   == MaskReinitPublish(sent, it)
        received == ReceiversExecute([events |-> reinit,
                                      offset |-> ResetEvent(it),
                                      recv |-> [k \in Peers |-> NoReceiver]],
                                     it, 1, procs, F)
    IN  [events |-> received.events, offset |-> received.offset,
         recv |-> received.recv, mask_reset_waits |-> sent[0],
         calls |-> <<"sort">> \o [i \in 1..F |-> "sorter"]
                       \o [s \in 1..Len(procs) |-> "sender"]
                       \o <<"offset reset", "mask reset">>
                       \o [k \in 1..Len(procs) |-> "receiver"]]

\* Tool::execute, the publication of the event _execute returned.
ToolExecutePublish(deps, events, event) ==
    IF event # NULL THEN Publish(deps, events, event) ELSE events

\* Line 1024 of cbMPIRecv stores the local offset it read at entry;
\* next_offset is computed and left unused.
cbMPIRecvStored(offset, n) ==
    LET next_offset == (offset + n) % Word
    IN  offset

\* The count a peer receives from Isend(&n, ...): n is a local of the
\* callback and the send is never waited for, so the message may be built
\* after the callback returned: the peer gets n or another value.
SentCountsUpTo(n, max) == {n, (n + 1) % (max + 1)}

SentCounts(n) == SentCountsUpTo(n, MaxCount)

\* A sender that did not run yet.
NoSender ==
    [iter |-> 0, n |-> 0, cb |-> [i \in 1..MaxFields |-> "none"],
     sent |-> [t \in 0..MaxFields |-> 0]]

\* The iterations explored: one more for the tools with one peer and one
\* field.
MPIIters(procs, F) ==
    IF Len(procs) = 1 /\ F = 1 THEN MaxMPIIters + 1 ELSE MaxMPIIters

\* MPISync::setup
MPISetup(procs, F) ==
    /\ mProcs = procs
    /\ mF = F
    /\ mIter = 0
    /\ mEvent = [v \in MPIVars |-> MPIInitialEvent(v)]
    /\ mOffsetEvent = MPIInitialEvent(MaxFields + 1)
    /\ mOffset = 0
    /\ mDone = {}
    /\ mPendingSync = <<>>
    /\ mQueueWaits = {}
    /\ mRecv = [k \in Peers |-> NoReceiver]
    /\ mSend = [p \in Peers |-> NoSender]
    /\ mChan = [p \in Peers |-> [t \in 0..MaxFields |-> <<>>]]
    /\ mDownRan = FALSE
    /\ mSetTwice = {}
    /\ mCalls = [calls |-> <<>>, mask_reset_waits |-> NULL]
    /\ mLast = [tool |-> "", before |-> [v \in MPIVars |-> MPIInitialEvent(v)],
                inner |-> [v \in MPIVars |-> MPIInitialEvent(v)], out |-> NULL]

\* The tools explored: any number of fields with at most one peer, at most
\* one field with two peers.
MPIInit ==
    \E procs \in ProcLists, F \in FieldCounts :
        /\ Len(procs) > 1 => F <= 1
        /\ MPISetup(procs, F)

MPIIdle == MPISetup(<<>>, 0)

\* The blocking read of the first sender's reduction returns: the kernels in
\* front of it wait on the events of the mask and of the fields, and every
\* command left in the main queue has completed.
MPIHostDrained ==
    \A e \in mQueueWaits \cup Range(getEvents(MPIDeps(mF), mEvent)) :
        IsComplete(e, mDone)

\* Tool::execute of the MPISync tool.
MPIExecute ==
    /\ UNCHANGED <<notMPI, mSetTwice>>
    /\ mIter < MPIIters(mProcs, mF)
    /\ IF mProcs = <<>>
       THEN /\ mEvent' = ToolExecutePublish(MPIDeps(mF), mEvent, NULL)
            /\ mLast' = [tool |-> "MPISync", before |-> mEvent,
                         inner |-> mEvent, out |-> NULL]
            /\ UNCHANGED <<mOffsetEvent, mRecv, mQueueWaits, mCalls>>
       ELSE /\ MPIHostDrained
            /\ LET st == MPISyncExecute(mEvent, mIter + 1, mProcs, mF)
               IN  /\ mEvent' = ToolExecutePublish(MPIDeps(mF), st.events, NULL)
                   /\ mCalls' = [calls |-> st.calls,
                                 mask_reset_waits |-> st.mask_reset_waits]
                   /\ mOffsetEvent' = st.offset
                   /\ mRecv' = st.recv
                   /\ mQueueWaits' = UNION {st.recv[k].waits : k \in Peers}
                   /\ mLast' = [tool |-> "MPISync", before |-> mEvent,
                                inner |-> st.events, out |-> NULL]
    /\ mIter' = mIter + 1
    /\ mDownRan' = FALSE
    /\ UNCHANGED <<mProcs, mF, mOffset, mDone, mPendingSync, mSend, mChan>>

\* The reset of __mpi_offset (_n_offset_recv_reinit) takes effect.
MPIResetComplete ==
    /\ UNCHANGED <<notMPI, mSetTwice, mCalls>>
    /\ mIter > 0 /\ mProcs # <<>>
    /\ ResetEvent(mIter) \notin mDone
    /\ mOffset' = 0
    /\ mDone' = mDone \cup {ResetEvent(mIter)}
    /\ UNCHANGED <<mProcs, mF, mIter, mEvent, mOffsetEvent, mPendingSync,
                   mQueueWaits, mRecv, mSend, mChan, mDownRan, mLast>>

\* The reset of the mask (_mask_reinit) has run on the device.
MPIMaskReinitComplete ==
    /\ UNCHANGED <<notMPI, mSetTwice, mCalls>>
    /\ mIter > 0 /\ mProcs # <<>>
    /\ MaskReinitEvent(mIter) \notin mDone
    /\ mDone' = mDone \cup {MaskReinitEvent(mIter)}
    /\ UNCHANGED <<mProcs, mF, mIter, mEvent, mOffsetEvent, mOffset,
                   mPendingSync, mQueueWaits, mRecv, mSend, mChan, mDownRan,
                   mLast>>

\* Tool::execute of the tool after MPISync in the pipeline: a kernel on the
\* same fields and mask, which returns its event.
MPIDownstream ==
    /\ UNCHANGED <<notMPI, mSetTwice, mCalls>>
    /\ mIter > 0 /\ ~mDownRan
    /\ LET events == getEvents(MPIDeps(mF), mEvent)
           event  == DownstreamEvent(mIter)
       IN  /\ mEvent' = ToolExecutePublish(MPIDeps(mF), mEvent, event)
           /\ mQueueWaits' = mQueueWaits \cup Range(events)
           /\ mLast' = [tool |-> "Kernel", before |-> mEvent,
                        inner |-> mEvent, out |-> event]
    /\ mDownRan' = TRUE
    /\ UNCHANGED <<mProcs, mF, mIter, mOffsetEvent, mOffset, mDone,
                   mPendingSync, mRecv, mSend, mChan>>

\* clSetUserEventStatus called on the events of seq, in order: the events
\* that were terminal already, or that the sequence sets again.
SetAgain(seq, done) ==
    {seq[j] : j \in {i \in 1..Len(seq) :
                        seq[i] \in done \/ \E l \in 1..(i - 1) : seq[l] = seq[i]}}

\* cbMPIRecv with n = 0, the user events it completes: the one of the mask,
\* then the one of every field.
ZeroCompleted(r, F) == <<r.mask_event>> \o [i \in 1..F |-> r.field_events[i]]

\* cbMPIRecv is called (its marker completed) and reads the offset.
RecvStart(k) ==
    /\ UNCHANGED <<notMPI, mSetTwice, mCalls>>
    /\ mRecv[k].pc = "armed"
    /\ \A e \in mRecv[k].waits : IsComplete(e, mDone)
    /\ \A e \in MainQueueBefore(mIter) : IsComplete(e, mDone)
    /\ mRecv' = [mRecv EXCEPT ![k].pc = "count", ![k].entry = mOffset]
    /\ UNCHANGED <<mProcs, mF, mIter, mEvent, mOffsetEvent, mOffset, mDone,
                   mPendingSync, mQueueWaits, mSend, mChan, mDownRan, mLast>>

\* cbMPIRecv, the blocking receive of the count (tag 0).
RecvCount(k) ==
    /\ UNCHANGED <<notMPI, mSetTwice, mCalls>>
    /\ mRecv[k].pc = "count"
    /\ mChan[mRecv[k].proc][0] # <<>>
    /\ mRecv' = [mRecv EXCEPT ![k].pc = "store",
                              ![k].n = Head(mChan[mRecv[k].proc][0])]
    /\ mChan' = [mChan EXCEPT ![mRecv[k].proc][0] = Tail(@)]
    /\ UNCHANGED <<mProcs, mF, mIter, mEvent, mOffsetEvent, mOffset, mDone,
                   mPendingSync, mQueueWaits, mSend, mDownRan, mLast>>

\* cbMPIRecv, data->offset->set_async(...)
RecvStore(k) ==
    /\ UNCHANGED <<notMPI, mSetTwice, mCalls>>
    /\ mRecv[k].pc = "store"
    /\ mOffset' = cbMPIRecvStored(mRecv[k].entry, mRecv[k].n)
    /\ mRecv' = [mRecv EXCEPT ![k].pc = "signal",
                              ![k].stored = cbMPIRecvStored(mRecv[k].entry, mRecv[k].n)]
    /\ UNCHANGED <<mProcs, mF, mIter, mEvent, mOffsetEvent, mDone,
                   mPendingSync, mQueueWaits, mSend, mChan, mDownRan, mLast>>

\* cbMPIRecv, clSetUserEventStatus(data->offset_event, CL_COMPLETE)
RecvSignal(k) ==
    /\ UNCHANGED notMPI
    /\ mRecv[k].pc = "signal"
    /\ mDone' = mDone \cup {mRecv[k].offset_event}
    /\ mSetTwice' = mSetTwice \cup SetAgain(<<mRecv[k].offset_event>>, mDone)
    /\ UNCHANGED mCalls
    /\ mRecv' = [mRecv EXCEPT ![k].pc = IF mRecv[k].n = 0 THEN "zero" ELSE "mask"]
    /\ UNCHANGED <<mProcs, mF, mIter, mEvent, mOffsetEvent, mOffset,
                   mPendingSync, mQueueWaits, mSend, mChan, mDownRan, mLast>>

\* cbMPIRecv with n = 0: the mask and field user events are completed.
RecvZero(k) ==
    /\ UNCHANGED notMPI
    /\ mRecv[k].pc = "zero"
    /\ mDone' = mDone \cup Range(ZeroCompleted(mRecv[k], mF))
    /\ mSetTwice' = mSetTwice \cup SetAgain(ZeroCompleted(mRecv[k], mF), mDone)
    /\ UNCHANGED mCalls
    /\ mRecv' = [mRecv EXCEPT ![k].pc = "done"]
    /\ UNCHANGED <<mProcs, mF, mIter, mEvent, mOffsetEvent, mOffset,
                   mPendingSync, mQueueWaits, mSend, mChan, mDownRan, mLast>>

\* cbMPIRecv with n > 0: the set_mask kernel is enqueued and the mask user
\* event is synced to it.
RecvMask(k) ==
    /\ UNCHANGED <<notMPI, mSetTwice, mCalls>>
    /\ mRecv[k].pc = "mask"
    /\ mPendingSync' = Append(mPendingSync, mRecv[k].mask_event)
    /\ mRecv' = [mRecv EXCEPT ![k].pc = IF mF = 0 THEN "done" ELSE "field",
                              ![k].i = 1]
    /\ UNCHANGED <<mProcs, mF, mIter, mEvent, mOffsetEvent, mOffset, mDone,
                   mQueueWaits, mSend, mChan, mDownRan, mLast>>

\* cbMPIRecv, one round of the loop over the fields: the blocking receive of
\* the payload (tag i + 1 for the i-th field, counted from 0), the upload and
\* the sync of the field user event.
RecvField(k) ==
    /\ UNCHANGED <<notMPI, mSetTwice, mCalls>>
    /\ mRecv[k].pc = "field"
    /\ mChan[mRecv[k].proc][mRecv[k].i] # <<>>
    /\ mChan' = [mChan EXCEPT ![mRecv[k].proc][mRecv[k].i] = Tail(@)]
    /\ mPendingSync' = Append(mPendingSync, mRecv[k].field_events[mRecv[k].i])
    /\ mRecv' = [mRecv EXCEPT ![k].pc = IF mRecv[k].i = mF THEN "done" ELSE "field",
                              ![k].i = mRecv[k].i + 1]
    /\ UNCHANGED <<mProcs, mF, mIter, mEvent, mOffsetEvent, mOffset, mDone,
                   mQueueWaits, mSend, mDownRan, mLast>>

\* cbUserEventSync: the device command completed, its user event follows.
\* The second queue runs its commands in order.
MPIDeviceSync(e) ==
    /\ UNCHANGED notMPI
    /\ e \in SecondQueueReady(mPendingSync)
    /\ mPendingSync' = SelectSeq(mPendingSync, LAMBDA x : x # e)
    /\ mDone' = mDone \cup {e}
    /\ mSetTwice' = mSetTwice \cup SetAgain(<<e>>, mDone)
    /\ UNCHANGED mCalls
    /\ UNCHANGED <<mProcs, mF, mIter, mEvent, mOffsetEvent, mOffset,
                   mQueueWaits, mRecv, mSend, mChan, mDownRan, mLast>>

\* MPISync::Sender::execute on peer p, for this process: the number of
\* particles to send is known and one callback per field is registered. The
\* peer enters an iteration only once its receivers of the iteration before
\* got the counts this process sent in that iteration.
PeerSenderExecute(p) ==
    /\ UNCHANGED <<notMPI, mSetTwice, mCalls>>
    /\ p \in Range(mProcs)
    /\ mSend[p].iter < MPIIters(mProcs, mF)
    /\ mSend[p].iter <= mIter
    /\ \A i \in 1..MaxFields : mSend[p].cb[i] # "armed"
    /\ \E n \in 0..MaxCount :
         mSend' = [mSend EXCEPT ![p] =
                      [iter |-> mSend[p].iter + 1,
                       n    |-> n,
                       cb   |-> [i \in 1..MaxFields |->
                                   IF i <= mF THEN "armed" ELSE "none"],
                       sent |-> [t \in 0..MaxFields |-> 0]]]
    /\ UNCHANGED <<mProcs, mF, mIter, mEvent, mOffsetEvent, mOffset, mDone,
                   mPendingSync, mQueueWaits, mRecv, mChan, mDownRan, mLast>>

\* cbMPISend on peer p with tag: the count goes out with tag 0 from the
\* callback of tag 1 only; the payload goes out when n is not zero.
PeerSendCallback(p, tag) ==
    /\ UNCHANGED <<notMPI, mSetTwice, mCalls>>
    /\ mSend[p].cb[tag] = "armed"
    /\ \E c \in (IF tag = 1 THEN SentCounts(mSend[p].n) ELSE {0}) :
         LET n      == mSend[p].n
             count  == IF tag = 1 THEN [mChan[p] EXCEPT ![0] = Append(@, c)]
                       ELSE mChan[p]
             sent0  == IF tag = 1 THEN [mSend[p].sent EXCEPT ![0] = @ + 1]
                       ELSE mSend[p].sent
         IN  /\ mChan' = [mChan EXCEPT ![p] =
                            IF n = 0 THEN count
                            ELSE [count EXCEPT ![tag] = Append(@, n)]]
             /\ mSend' = [mSend EXCEPT ![p].cb[tag] = "done",
                                       ![p].sent = IF n = 0 THEN sent0
                                                   ELSE [sent0 EXCEPT ![tag] = @ + 1]]
    /\ UNCHANGED <<mProcs, mF, mIter, mEvent, mOffsetEvent, mOffset, mDone,
                   mPendingSync, mQueueWaits, mRecv, mDownRan, mLast>>

MPINext ==
    \/ MPIExecute
    \/ MPIResetComplete
    \/ MPIMaskReinitComplete
    \/ MPIDownstream
    \/ \E k \in Peers :
          \/ RecvStart(k)
          \/ RecvCount(k)
          \/ RecvStore(k)
          \/ RecvSignal(k)
          \/ RecvZero(k)
          \/ RecvMask(k)
          \/ RecvField(k)
    \/ \E e \in Range(mPendingSync) : MPIDeviceSync(e)
    \/ \E p \in Peers : PeerSenderExecute(p)
    \/ \E p \in Peers, tag \in 1..MaxFields : PeerSendCallback(p, tag)

(***************************************************************************)
(*                       MPISync, the particles                            *)
(***************************************************************************)

\* The longest mask and field arrays explored.
MaxParticles == 3

\* Two processes, each the only peer of the other.
Ranks == {0, 1}

PeerOf(r) == 1 - r

\* The field holds an identifier per particle: the j-th particle of rank r.
ParticleId(r, j) == 10 * r + j

\* What a slice of the host buffer holds where no message was received into
\* it: the memory malloc returned, never written.
Stale == 0

\* The indexes of the particles whose mask is v, in increasing order.
IndexesOf(mask, v) ==
    SelectSeq([j \in 1..Len(mask) |-> j], LAMBDA j : mask[j] = v)

\* RadixSort on the mask: the permutation __<mask>_sorted, keys in increasing
\* order.
SortedId(mask) == IndexesOf(mask, 0) \o IndexesOf(mask, 1)

\* UnSort of a field: the copy in the order of the sorted mask.
FieldSorted(field, sorted_id) ==
    [i \in 1..Len(sorted_id) |-> field[sorted_id[i]]]

\* The n_offset_mask kernel and its sum reduction: the particles whose mask
\* is below proc.
n_offset(mask, proc) == Cardinality({j \in 1..Len(mask) : mask[j] < proc})

\* The n_send_mask kernel and its sum reduction: the particles whose mask is
\* proc.
n_send(mask, proc) == Cardinality({j \in 1..Len(mask) : mask[j] = proc})

\* cbMPISend, the slice downloaded and sent.
SentSlice(sorted, offset, n) == SubSeq(sorted, offset + 1, offset + n)

\* Set on the mask (_mask_reinit): every entry becomes the local rank.
MaskReinit(mask, rank) == [j \in 1..Len(mask) |-> rank]

\* The set_mask kernel: n entries from offset on become proc.
set_mask(mask, proc, offset, n) ==
    [j \in 1..Len(mask) |->
        IF j > offset /\ j <= offset + n THEN proc ELSE mask[j]]

\* cbMPIRecv, the n elements of the host buffer that are uploaded: the
\* message received, then what the buffer held before.
HostSlice(payload, n) ==
    [i \in 1..n |-> IF i <= Len(payload) THEN payload[i] ELSE Stale]

\* clEnqueueWriteBuffer of the slice at offset.
Upload(field, offset, data) ==
    [j \in 1..Len(field) |->
        IF j > offset /\ j <= offset + Len(data) THEN data[j - offset]
        ELSE field[j]]

\* Nothing sent yet.
NoMessage == [sent |-> FALSE, count |-> 0, n |-> 0, payload |-> <<>>]

\* MPISync::setup on both ranks, with the masks given.
SyncSetup(masks) ==
    /\ sInitMask = masks
    /\ sMask = masks
    /\ sField = [r \in Ranks |-> [j \in 1..Len(masks[r]) |-> ParticleId(r, j)]]
    /\ sOffset = [r \in Ranks |-> 0]
    /\ sWire = [r \in Ranks |-> NoMessage]
    /\ sPc = [r \in Ranks |-> "start"]

SyncInit ==
    \E N \in 1..MaxParticles :
        \E masks \in [Ranks -> [1..N -> Ranks]] : SyncSetup(masks)

SyncIdle == SyncSetup([r \in Ranks |-> <<r>>])

\* MPISync::_execute on rank r up to the senders, and cbMPISend: the mask and
\* the field are sorted, the offset and the number of particles of the peer
\* are reduced, the count (tag 0) and the slice (tag 1) are sent.
SyncSend(r) ==
    /\ UNCHANGED notSync
    /\ sPc[r] = "start"
    /\ LET sorted == FieldSorted(sField[r], SortedId(sMask[r]))
           offset == n_offset(sMask[r], PeerOf(r))
           n      == n_send(sMask[r], PeerOf(r))
       IN  \E count \in SentCountsUpTo(n, Len(sMask[r])) :
               sWire' = [sWire EXCEPT ![r] =
                            [sent |-> TRUE, count |-> count, n |-> n,
                             payload |-> SentSlice(sorted, offset, n)]]
    /\ sPc' = [sPc EXCEPT ![r] = "sent"]
    /\ UNCHANGED <<sInitMask, sMask, sField, sOffset>>

\* MPISync::_execute on rank r, the rest: __mpi_offset and the mask are
\* reset, the receiver is armed.
SyncReceiverExecute(r) ==
    /\ UNCHANGED notSync
    /\ sPc[r] = "sent"
    /\ sOffset' = [sOffset EXCEPT ![r] = 0]
    /\ sMask' = [sMask EXCEPT ![r] = MaskReinit(sMask[r], r)]
    /\ sPc' = [sPc EXCEPT ![r] = "armed"]
    /\ UNCHANGED <<sInitMask, sField, sWire>>

\* cbMPIRecv on rank r: the count is received; with a count of zero the
\* callback returns; otherwise the mask is set and the slice is received
\* and uploaded. The callback stays in Recv when the peer sent no slice.
SyncRecv(r) ==
    /\ UNCHANGED notSync
    /\ sPc[r] = "armed"
    /\ sWire[PeerOf(r)].sent
    /\ LET msg    == sWire[PeerOf(r)]
           offset == sOffset[r]
           n      == msg.count
       IN  /\ sOffset' = [sOffset EXCEPT ![r] = cbMPIRecvStored(offset, n)]
           /\ IF n = 0
              THEN /\ sPc' = [sPc EXCEPT ![r] = "done"]
                   /\ UNCHANGED <<sMask, sField>>
              ELSE /\ sMask' = [sMask EXCEPT ![r] =
                                   set_mask(sMask[r], PeerOf(r), offset, n)]
                   /\ IF msg.n = 0
                      THEN /\ sPc' = [sPc EXCEPT ![r] = "blocked"]
                           /\ UNCHANGED sField
                      ELSE /\ sField' = [sField EXCEPT ![r] =
                                  Upload(sField[r], offset,
                                         HostSlice(msg.payload, n))]
                           /\ sPc' = [sPc EXCEPT ![r] = "done"]
    /\ UNCHANGED <<sInitMask, sWire>>

SyncNext ==
    \E r \in Ranks :
        \/ SyncSend(r)
        \/ SyncReceiverExecute(r)
        \/ SyncRecv(r)

(***************************************************************************)
(*                  MPISync, the host buffer of the senders                *)
(***************************************************************************)

\* MPISync::execute calls explored for the senders.
MaxSendIters == 2

\* The elements of the host buffer a download writes: n of them from offset.
Slice(offset, n) == (offset + 1)..(offset + n)

\* MPISync::setupSenders: one host buffer per field, handed to the sender of
\* every peer.
HostSetup(procs) ==
    /\ hProcs = procs
    /\ hIter = 0
    /\ hOffset = [p \in Peers |-> 0]
    /\ hN = [p \in Peers |-> 0]
    /\ hCalls = {}
    /\ hFlight = {}
    /\ hClobbered = FALSE

HostInit == \E procs \in ProcLists \ {<<>>} : HostSetup(procs)

HostIdle == HostSetup(<<1>>)

\* MPISync::_execute, the senders: the mask is sorted, so the particles of
\* the peers lie one after the other behind the local ones; for every peer
\* the offset and the number of its particles are reduced and a callback is
\* registered on the marker of the field.
HostSendersExecute ==
    /\ UNCHANGED notHost
    /\ hIter < MaxSendIters
    /\ \E local \in 0..1, n \in [Peers -> 0..MaxCount] :
          /\ hN' = [p \in Peers |-> IF p \in Range(hProcs) THEN n[p] ELSE 0]
          /\ hOffset' = [p \in Peers |->
                            IF p \notin Range(hProcs) THEN 0
                            ELSE IF p = 1 \/ 1 \notin Range(hProcs) THEN local
                            ELSE local + n[1]]
          /\ \A p \in Peers : p \notin Range(hProcs) => n[p] = 0
    /\ hIter' = hIter + 1
    /\ hCalls' = hCalls \cup {[proc |-> p, iter |-> hIter + 1, pc |-> "armed",
                               slice |-> {}] : p \in Range(hProcs)}
    /\ UNCHANGED <<hProcs, hFlight, hClobbered>>

\* cbMPISend up to the download: the callback reads the offset and the
\* number through the pointers it was given; with nothing to send it
\* returns; otherwise its blocking read runs once the second queue reaches
\* it and writes the slice of the host buffer.
HostDownload(c) ==
    /\ UNCHANGED notHost
    /\ c \in hCalls /\ c.pc = "armed"
    /\ IF hN[c.proc] = 0
       THEN /\ hCalls' = hCalls \ {c}
            /\ UNCHANGED hClobbered
       ELSE /\ \A d \in hCalls : d.pc # "reading"
            /\ LET slice == Slice(hOffset[c.proc], hN[c.proc])
               IN  /\ hCalls' = (hCalls \ {c}) \cup
                                   {[c EXCEPT !.pc = "reading", !.slice = slice]}
                   /\ hClobbered' =
                         (hClobbered \/ \E f \in hFlight : f.slice \cap slice # {})
    /\ UNCHANGED <<hProcs, hIter, hOffset, hN, hFlight>>

\* cbMPISend, the rest: the blocking read returned, the slice is handed to
\* Isend and the callback returns; the request is dropped.
HostSend(c) ==
    /\ UNCHANGED notHost
    /\ c \in hCalls /\ c.pc = "reading"
    /\ hCalls' = hCalls \ {c}
    /\ hFlight' = hFlight \cup {[proc |-> c.proc, iter |-> c.iter,
                                 slice |-> c.slice]}
    /\ UNCHANGED <<hProcs, hIter, hOffset, hN, hClobbered>>

\* The peer received the slice: the send is over.
HostPeerReceived(f) ==
    /\ UNCHANGED notHost
    /\ f \in hFlight
    /\ hFlight' = hFlight \ {f}
    /\ UNCHANGED <<hProcs, hIter, hOffset, hN, hCalls, hClobbered>>

HostNext ==
    \/ HostSendersExecute
    \/ \E c \in hCalls : HostDownload(c) \/ HostSend(c)
    \/ \E f \in hFlight : HostPeerReceived(f)

(***************************************************************************)
(*                   MPISync, the types of the fields                      *)
(***************************************************************************)

\* The characters of the names of the types.
CharsInt == <<"i", "n", "t">>

CharsUnsignedInt ==
    <<"u", "n", "s", "i", "g", "n", "e", "d", " ", "i", "n", "t">>

CharsFloat == <<"f", "l", "o", "a", "t">>

CharsVec == <<"v", "e", "c">>

CharsIVec == <<"i", "v", "e", "c">>

CharsUIVec == <<"u", "i", "v", "e", "c">>

CharsMatrix == <<"m", "a", "t", "r", "i", "x">>

TypeBases ==
    {"int", "unsigned int", "float", "vec", "ivec", "uivec", "matrix"}

TypeSuffixes == {"", "2", "3", "4"}

\* The type names of the model: a base, a number of components or none,
\* and the '*' of an array or none.
TypeNames == [base : TypeBases, suffix : TypeSuffixes, star : {"", "*"}]

\* The string of a type name.
TypeChars(name) ==
    LET base == CASE name.base = "int" -> CharsInt
                  [] name.base = "unsigned int" -> CharsUnsignedInt
                  [] name.base = "float" -> CharsFloat
                  [] name.base = "vec" -> CharsVec
                  [] name.base = "ivec" -> CharsIVec
                  [] name.base = "uivec" -> CharsUIVec
                  [] name.base = "matrix" -> CharsMatrix
        suffix == IF name.suffix = "" THEN <<>> ELSE <<name.suffix>>
        star == IF name.star = "" THEN <<>> ELSE <<name.star>>
    IN  base \o suffix \o star

\* A hasSuffix that never matches.
hasSuffixNever(str, suffix) == FALSE

\* hasSuffix of AuxiliarMethods.cpp.
hasSuffix(str, suffix) ==
    /\ Len(str) >= Len(suffix)
    /\ SubSeq(str, Len(str) - Len(suffix) + 1, Len(str)) = suffix

\* std::string::pop_back.
pop_back(t) == SubSeq(t, 1, Len(t) - 1)

\* MPISync::Exchanger::typeToMPI on the string t, in a build with or
\* without HAVE_3D.
typeToMPI(t, have_3d) ==
    LET t1 == IF t[Len(t)] = "*" THEN pop_back(t) ELSE t
        n == IF hasSuffix(t1, CharsVec) THEN (IF have_3d THEN 4 ELSE 2)
             ELSE IF hasSuffix(t1, <<"2">>) THEN 2
             ELSE IF hasSuffix(t1, <<"3">>) THEN 3
             ELSE IF hasSuffix(t1, <<"4">>) THEN 4
             ELSE 1
        t2 == IF hasSuffix(t1, CharsVec) THEN t1
              ELSE IF \/ hasSuffix(t1, <<"2">>)
                      \/ hasSuffix(t1, <<"3">>)
                      \/ hasSuffix(t1, <<"4">>)
                   THEN pop_back(t1)
                   ELSE t1
        mpi_t == IF t2 = CharsInt \/ t2 = CharsIVec THEN "MPI::INT"
                 ELSE IF t2 = CharsUnsignedInt \/ t2 = CharsUIVec
                      THEN "MPI::UNSIGNED"
                 ELSE IF t2 = CharsFloat \/ t2 = CharsVec THEN "MPI::FLOAT"
                 ELSE "MPI::DATATYPE_NULL"
    IN  [n |-> n, t |-> mpi_t]

\* No descriptor computed yet.
NoDescriptor == [n |-> 0, t |-> ""]

\* The numbers of fields of the exchanges of the model.
XchFieldCounts == {1, 2}

XchSetup(have_3d, types, n) ==
    /\ xHave3D = have_3d
    /\ xTypes = types
    /\ xN = n
    /\ xSend = [i \in DOMAIN types |-> "pending"]
    /\ xDesc = [i \in DOMAIN types |-> NoDescriptor]
    /\ xSenderDown = FALSE
    /\ xCount = [sent |-> FALSE, n |-> 0]
    /\ xPayload = {}
    /\ xRecv = [pc |-> "armed", i |-> 1, n |-> 0]
    /\ xFieldEvent = [i \in DOMAIN types |-> "submitted"]

\* One iteration of a sender and of the receiver of its peer, on fields of
\* any type and for any number of particles to send.
XchInit ==
    \E have_3d \in BOOLEAN, F \in XchFieldCounts, n \in 0..MaxCount :
        \E types \in [1..F -> TypeNames] : XchSetup(have_3d, types, n)

\* The subsystem left alone by the other specifications.
XchIdle ==
    XchSetup(FALSE, <<[base |-> "float", suffix |-> "", star |-> "*"]>>, 0)

\* cbMPISend of the field with tag i.
XchSendCallback(i) ==
    /\ UNCHANGED notXch
    /\ ~xSenderDown
    /\ xSend[i] = "pending"
    /\ LET mpi_t == typeToMPI(TypeChars(xTypes[i]), xHave3D)
       IN  \* if(data->tag == 1) Isend(&n, 1, MPI::UNSIGNED, proc, 0)
           /\ IF i = 1
              THEN \E d \in SentCounts(xN) :
                       xCount' = [sent |-> TRUE, n |-> d]
              ELSE UNCHANGED xCount
           /\ IF xN = 0
              THEN \* if(!n) return
                   /\ xSend' = [xSend EXCEPT ![i] = "returned"]
                   /\ UNCHANGED <<xDesc, xSenderDown, xPayload>>
              ELSE /\ xDesc' = [xDesc EXCEPT ![i] = mpi_t]
                   /\ IF mpi_t.t = "MPI::DATATYPE_NULL"
                      THEN \* throw std::runtime_error("Invalid type"), in
                           \* a callback: the process is terminated
                           /\ xSend' = [xSend EXCEPT ![i] = "thrown"]
                           /\ xSenderDown' = TRUE
                           /\ UNCHANGED xPayload
                      ELSE /\ xSend' = [xSend EXCEPT ![i] = "sent"]
                           /\ xPayload' = xPayload \cup {i}
                           /\ UNCHANGED xSenderDown
    /\ UNCHANGED <<xHave3D, xTypes, xN, xRecv, xFieldEvent>>

\* cbMPIRecv up to the fields: Recv of the count and, for no particle, the
\* completion of the events of the fields.
XchRecvCount ==
    /\ UNCHANGED notXch
    /\ xRecv.pc = "armed"
    /\ xCount.sent
    /\ IF xCount.n = 0
       THEN /\ xRecv' = [pc |-> "done", i |-> 1, n |-> 0]
            /\ xFieldEvent' = [i \in DOMAIN xTypes |-> "complete"]
       ELSE /\ xRecv' = [pc |-> "fields", i |-> 1, n |-> xCount.n]
            /\ UNCHANGED xFieldEvent
    /\ UNCHANGED <<xHave3D, xTypes, xN, xSend, xDesc, xSenderDown, xCount,
                   xPayload>>

\* cbMPIRecv, the loop of the fields at a field whose type has no
\* descriptor: the error is logged and the callback returns.
XchRecvBadType ==
    /\ UNCHANGED notXch
    /\ xRecv.pc = "fields"
    /\ typeToMPI(TypeChars(xTypes[xRecv.i]), xHave3D).t = "MPI::DATATYPE_NULL"
    /\ xRecv' = [xRecv EXCEPT !.pc = "returned"]
    /\ UNCHANGED <<xHave3D, xTypes, xN, xSend, xDesc, xSenderDown, xCount,
                   xPayload, xFieldEvent>>

\* cbMPIRecv, the loop of the fields at a field with a descriptor: Recv of
\* the payload and the asynchronous upload.
XchRecvField ==
    /\ UNCHANGED notXch
    /\ xRecv.pc = "fields"
    /\ typeToMPI(TypeChars(xTypes[xRecv.i]), xHave3D).t # "MPI::DATATYPE_NULL"
    /\ xRecv.i \in xPayload
    /\ xPayload' = xPayload \ {xRecv.i}
    /\ xFieldEvent' = [xFieldEvent EXCEPT ![xRecv.i] = "uploading"]
    /\ xRecv' = IF xRecv.i = Len(xTypes)
                THEN [xRecv EXCEPT !.pc = "done"]
                ELSE [xRecv EXCEPT !.i = xRecv.i + 1]
    /\ UNCHANGED <<xHave3D, xTypes, xN, xSend, xDesc, xSenderDown, xCount>>

\* sync_user_event: the upload of a field completed.
XchUploaded(i) ==
    /\ UNCHANGED notXch
    /\ xFieldEvent[i] = "uploading"
    /\ xFieldEvent' = [xFieldEvent EXCEPT ![i] = "complete"]
    /\ UNCHANGED <<xHave3D, xTypes, xN, xSend, xDesc, xSenderDown, xCount,
                   xPayload, xRecv>>

XchNext ==
    \/ \E i \in DOMAIN xTypes : XchSendCallback(i)
    \/ XchRecvCount
    \/ XchRecvBadType
    \/ XchRecvField
    \/ \E i \in DOMAIN xTypes : XchUploaded(i)

(***************************************************************************)
(*              Link-List, the grid and the heads of the cells             *)
(***************************************************************************)

\* Particles of the set.
MaxGridParticles == 2

\* support * h of the grid runs.
GridCellLengths == {1, 2}

\* The positions a particle may take, <<x, y, z>> (z is 0 in a 2D build).
GridPoints(have_3d) ==
    {<<-1, -2, 0>>, <<0, 0, 0>>, <<5, 4, 0>>}
        \cup (IF have_3d THEN {<<2, 3, 1>>} ELSE {})

\* The arrays of positions of every length up to MaxGridParticles.
GridPositions(have_3d) ==
    UNION {[1..n -> GridPoints(have_3d)] : n \in 1..MaxGridParticles}

\* The componentwise minimum and maximum the two reductions leave in r_min
\* and r_max.
ComponentMin(r, k) ==
    CHOOSE m \in {r[i][k] : i \in DOMAIN r} : \A i \in DOMAIN r : m <= r[i][k]

ComponentMax(r, k) ==
    CHOOSE m \in {r[i][k] : i \in DOMAIN r} : \A i \in DOMAIN r : m >= r[i][k]

\* A LinkList::allocate that never updates _ihoc_gws.
allocateKeepGws(_n_cells, n_cells, ihoc_gws) ==
    IF _n_cells[4] <= n_cells[4]
    THEN [realloc |-> FALSE, ihoc_gws |-> ihoc_gws,
          n_cells |-> <<_n_cells[1], _n_cells[2], _n_cells[3], n_cells[4]>>]
    ELSE [realloc |-> TRUE, ihoc_gws |-> ihoc_gws, n_cells |-> _n_cells]

\* A LinkList::allocate that replaces the buffer at every call.
allocateAlways(_n_cells, n_cells, ihoc_gws) ==
    [realloc |-> TRUE, ihoc_gws |-> roundUp(_n_cells[4], IhocLws),
     n_cells |-> _n_cells]

\* LinkList::allocate: when the required total fits the allocated one only the
\* three dimensions are updated; else the buffer is replaced, n_cells takes the
\* required value and _ihoc_gws is recomputed.
allocate(_n_cells, n_cells, ihoc_gws) ==
    IF _n_cells[4] <= n_cells[4]
    THEN [realloc |-> FALSE, ihoc_gws |-> ihoc_gws,
          n_cells |-> <<_n_cells[1], _n_cells[2], _n_cells[3], n_cells[4]>>]
    ELSE [realloc |-> TRUE, ihoc_gws |-> roundUp(_n_cells[4], IhocLws),
          n_cells |-> _n_cells]

\* The iCell kernel: the cell of a position, three cells of guard before the
\* first occupied one on each axis.
CellOf(r, r_min, cell_length, n_cells, have_3d) ==
    LET cx == ((r[1] - r_min[1]) \div cell_length) + 3
        cy == ((r[2] - r_min[2]) \div cell_length) + 3
        cz == IF have_3d THEN ((r[3] - r_min[3]) \div cell_length) + 3 ELSE 0
    IN  cx + n_cells[1] * (cy + n_cells[2] * cz)

\* The radix sort of the keys, ascending.
RECURSIVE SortKeys(_)
SortKeys(keys) ==
    IF keys = <<>> THEN <<>>
    ELSE LET m == CHOOSE i \in DOMAIN keys : \A j \in DOMAIN keys : keys[i] <= keys[j]
         IN  <<keys[m]>> \o SortKeys([i \in 1..(Len(keys) - 1) |->
                                         IF i < m THEN keys[i] ELSE keys[i + 1]])

\* The iHoc kernel launched over gws work items on the sorted icell: the work
\* item of a cell below n_cells.w writes the index of the first particle of
\* the cell, N when the cell is empty; the other entries keep their value.
iHoc(ihoc, icell, N, n_cells, gws) ==
    [c \in DOMAIN ihoc |->
        IF c < gws /\ c < n_cells[4]
        THEN LET in_c == {i \in 0..(N - 1) : icell[i + 1] = c}
             IN  IF in_c = {} THEN N
                 ELSE CHOOSE i \in in_c : \A j \in in_c : i <= j
        ELSE ihoc[c]]

\* LinkList::setup and setupOpenCL, before the first execute.
GridSetup(have_3d, cell_length, r) ==
    /\ gHave3D = have_3d
    /\ gCellLength = cell_length
    /\ gR = r
    /\ gPc = "idle"
    /\ gRMin = <<0, 0, 0>>
    /\ gRMax = <<0, 0, 0>>
    /\ gRequired = <<0, 0, 0, 0>>
    /\ gNCells = <<0, 0, 0, 0>>
    /\ gIhocGws = roundUp(0, IhocLws)
    /\ gICell = [i \in DOMAIN r |-> 0]
    /\ gIhoc = <<>>

GridInit ==
    \E have_3d \in BOOLEAN, cell_length \in GridCellLengths :
        \E r \in GridPositions(have_3d) : GridSetup(have_3d, cell_length, r)

GridIdle == GridSetup(FALSE, 1, <<<<0, 0, 0>>>>)

\* LinkList::_execute on the host: the two reductions and the wait for them,
\* nCells(), allocate(), and the three kernels and the sort enqueued.
GridExecute ==
    /\ UNCHANGED notGrid
    /\ gPc = "idle"
    /\ gCellLength # 0
    /\ LET pos_min  == [k \in 1..3 |-> ComponentMin(gR, k)]
           pos_max  == [k \in 1..3 |-> ComponentMax(gR, k)]
           _n_cells == nCellsBuild(pos_min, pos_max, gCellLength, gHave3D)
           a        == allocate(_n_cells, gNCells, gIhocGws)
       IN  /\ gRMin' = pos_min
           /\ gRMax' = pos_max
           /\ gRequired' = _n_cells
           /\ gNCells' = a.n_cells
           /\ gIhocGws' = a.ihoc_gws
           /\ gIhoc' = IF a.realloc THEN [c \in 0..(_n_cells[4] - 1) |-> -1]
                       ELSE gIhoc
    /\ gPc' = "iCell"
    /\ UNCHANGED <<gHave3D, gCellLength, gR, gICell>>

\* The device runs the iCell kernel.
GridDeviceICell ==
    /\ UNCHANGED notGrid
    /\ gPc = "iCell"
    /\ gICell' = [i \in DOMAIN gR |->
                     CellOf(gR[i], gRMin, gCellLength, gNCells, gHave3D)]
    /\ gPc' = "sort"
    /\ UNCHANGED <<gHave3D, gCellLength, gR, gRMin, gRMax, gRequired, gNCells,
                   gIhocGws, gIhoc>>

\* The device runs the radix sort of icell.
GridDeviceSort ==
    /\ UNCHANGED notGrid
    /\ gPc = "sort"
    /\ gICell' = SortKeys(gICell)
    /\ gPc' = "iHoc"
    /\ UNCHANGED <<gHave3D, gCellLength, gR, gRMin, gRMax, gRequired, gNCells,
                   gIhocGws, gIhoc>>

\* The device runs the iHoc kernel, and the linkList kernel after it.
GridDeviceIHoc ==
    /\ UNCHANGED notGrid
    /\ gPc = "iHoc"
    /\ gIhoc' = iHoc(gIhoc, gICell, Len(gR), gNCells, gIhocGws)
    /\ gPc' = "done"
    /\ UNCHANGED <<gHave3D, gCellLength, gR, gRMin, gRMax, gRequired, gNCells,
                   gIhocGws, gICell>>

\* The rest of the pipeline moves the particles before the next execute.
GridMove ==
    /\ UNCHANGED notGrid
    /\ gPc = "done"
    /\ \E r \in [DOMAIN gR -> GridPoints(gHave3D)] : gR' = r
    /\ gPc' = "idle"
    /\ UNCHANGED <<gHave3D, gCellLength, gRMin, gRMax, gRequired, gNCells,
                   gIhocGws, gICell, gIhoc>>

GridNext ==
    \/ GridExecute
    \/ GridDeviceICell
    \/ GridDeviceSort
    \/ GridDeviceIHoc
    \/ GridMove

(***************************************************************************)
(*                   Reduction, the passes of the setup                    *)
(***************************************************************************)

\* Input lengths explored from each end of unsigned int.
MaxPassLen == 12

\* The lengths of the input array: the short ones and the longest ones an
\* unsigned int holds.
PassLengths == (1..MaxPassLen) \cup {Word - k : k \in 1..MaxPassLen}

\* Reduction::setup and setupOpenCL up to the loop: _mems holds the input
\* buffer, n = _n.at(0), _n.clear(), i = 0.
PassSetup(n, max_local_size) ==
    /\ pLocalSize = LocalSize(max_local_size)
    /\ pInput = n
    /\ pn = n
    /\ pi = 0
    /\ pNs = <<>>
    /\ pGroups = <<>>
    /\ pMems = <<n>>
    /\ pKernels = <<>>
    /\ pPc = "loop"

PassInit ==
    \E n \in PassLengths, m \in DeviceLocalSizes : PassSetup(n, m)

PassIdle == PassSetup(1, 2)

\* One turn of the loop "while (n > 1)": the work sizes, the output buffer,
\* the kernel and its arguments, n = _number_groups.at(i), i++.
PassStep ==
    /\ UNCHANGED notPass
    /\ pPc = "loop"
    /\ pn > 1
    /\ NumberGroups(pn, pLocalSize) # 0
    /\ pNs' = Append(pNs, pn)
    /\ pGroups' = Append(pGroups, NumberGroups(pn, pLocalSize))
    /\ pMems' = Append(pMems, NumberGroups(pn, pLocalSize))
    /\ pKernels' = Append(pKernels, [input |-> pi, output |-> pi + 1])
    /\ pn' = NumberGroups(pn, pLocalSize)
    /\ pi' = pi + 1
    /\ UNCHANGED <<pLocalSize, pInput, pPc>>

\* A turn of the loop whose clCreateBuffer is asked for zero bytes: it returns
\* CL_INVALID_BUFFER_SIZE and the setup throws "OpenCL allocation error".
PassAllocationError ==
    /\ UNCHANGED notPass
    /\ pPc = "loop"
    /\ pn > 1
    /\ NumberGroups(pn, pLocalSize) = 0
    /\ pNs' = Append(pNs, pn)
    /\ pGroups' = Append(pGroups, 0)
    /\ pPc' = "failed"
    /\ UNCHANGED <<pLocalSize, pInput, pn, pi, pMems, pKernels>>

\* The loop ends.
PassEnd ==
    /\ UNCHANGED notPass
    /\ pPc = "loop"
    /\ ~(pn > 1)
    /\ pPc' = "done"
    /\ UNCHANGED <<pLocalSize, pInput, pn, pi, pNs, pGroups, pMems, pKernels>>

PassNext ==
    \/ PassStep
    \/ PassAllocationError
    \/ PassEnd

(***************************************************************************)
(*                                 Assert                                  *)
(***************************************************************************)

\* Iterations of the pipeline explored.
MaxChkIters == 3

\* The two runs compared: the pipeline with the assertion and without it.
ChkRuns == {"with", "without"}

\* The scalars of the registry: N and h are read by the condition.
ChkVarNames == {"N", "h", "x"}

\* The pipeline: a SetScalar on h, the assertion, a tool that reads h and
\* writes x.
ChkPipeline == <<"Set", "Assert", "Use">>

\* Tool::_vars of each tool.
ChkDeps ==
    [tool \in {"Set", "Assert", "Use"} |->
        CASE tool = "Set" -> {"h"}
          [] tool = "Assert" -> {"N", "h"}
          [] tool = "Use" -> {"h", "x"}]

\* The values the SetScalar may give to h, and N may have.
ChkValues == 0..3

\* The event a variable holds before any tool ran.
ChkInitialEvent(v) == [tool |-> "init", iter |-> 0, var |-> v]

\* The event the execute of a tool creates in an iteration.
ChkToolEvent(tool, iter) == [tool |-> tool, iter |-> iter, var |-> ""]

\* The condition of the assertion, N * h.
Condition(val) == val["N"] * val["h"]

\* An Assert::_solve that accepts every result.
AssertSolveNever(result) == ""

\* Assert::_solve: a result equal to 0 is false and raises the fatal error,
\* any other value lets the simulation continue.
AssertSolve(result) == IF result = 0 THEN "AssertionFailed" ELSE ""

\* Tool::execute, the events: the new event waits on the events of the
\* dependencies and replaces them.
ChkPublish(events, waits, tool, iter) ==
    [events |-> [v \in ChkVarNames |->
                   IF v \in ChkDeps[tool] THEN ChkToolEvent(tool, iter)
                   ELSE events[v]],
     waits  |-> waits \cup {[event |-> ChkToolEvent(tool, iter),
                             waits |-> {events[v] : v \in ChkDeps[tool]}]}]

ChkSetup(n) ==
    /\ aVal = [r \in ChkRuns |-> [N |-> n, h |-> 1, x |-> 0]]
    /\ aEvent = [r \in ChkRuns |-> [v \in ChkVarNames |-> ChkInitialEvent(v)]]
    /\ aWaits = [r \in ChkRuns |-> {}]
    /\ aIter = 0
    /\ aPos = 1
    /\ aFatal = [r \in ChkRuns |-> ""]
    /\ aResult = -1

ChkInit == \E n \in ChkValues : ChkSetup(n)

ChkIdle == ChkSetup(1)

\* The position after a tool of the pipeline.
ChkAdvance ==
    /\ aPos' = IF aPos = Len(ChkPipeline) THEN 1 ELSE aPos + 1
    /\ aIter' = IF aPos = Len(ChkPipeline) THEN aIter + 1 ELSE aIter

ChkRunning ==
    /\ aIter < MaxChkIters
    /\ \A r \in ChkRuns : aFatal[r] = ""

\* The SetScalar executes in both runs and gives h a value.
ChkSetExecute ==
    /\ UNCHANGED notChk
    /\ ChkRunning
    /\ ChkPipeline[aPos] = "Set"
    /\ \E value \in ChkValues :
          aVal' = [r \in ChkRuns |-> [aVal[r] EXCEPT !["h"] = value]]
    /\ aEvent' = [r \in ChkRuns |->
                    ChkPublish(aEvent[r], aWaits[r], "Set", aIter).events]
    /\ aWaits' = [r \in ChkRuns |->
                    ChkPublish(aEvent[r], aWaits[r], "Set", aIter).waits]
    /\ ChkAdvance
    /\ UNCHANGED <<aFatal, aResult>>

\* The assertion executes in the run that has it: the out-event of the scalar
\* expression is published on the variables of the condition, the condition
\* is evaluated and _solve decides. The other run has no tool at this place.
ChkAssertExecute ==
    /\ UNCHANGED notChk
    /\ ChkRunning
    /\ ChkPipeline[aPos] = "Assert"
    /\ aResult' = Condition(aVal["with"])
    /\ aFatal' = [aFatal EXCEPT !["with"] = AssertSolve(Condition(aVal["with"]))]
    /\ aEvent' = [aEvent EXCEPT !["with"] =
                    ChkPublish(aEvent["with"], aWaits["with"], "Assert", aIter).events]
    /\ aWaits' = [aWaits EXCEPT !["with"] =
                    ChkPublish(aEvent["with"], aWaits["with"], "Assert", aIter).waits]
    /\ ChkAdvance
    /\ UNCHANGED aVal

\* The tool after the assertion executes in both runs: x takes the value of h.
ChkUseExecute ==
    /\ UNCHANGED notChk
    /\ ChkRunning
    /\ ChkPipeline[aPos] = "Use"
    /\ aVal' = [r \in ChkRuns |-> [aVal[r] EXCEPT !["x"] = aVal[r]["h"]]]
    /\ aEvent' = [r \in ChkRuns |->
                    ChkPublish(aEvent[r], aWaits[r], "Use", aIter).events]
    /\ aWaits' = [r \in ChkRuns |->
                    ChkPublish(aEvent[r], aWaits[r], "Use", aIter).waits]
    /\ ChkAdvance
    /\ UNCHANGED <<aFatal, aResult>>

ChkNext ==
    \/ ChkSetExecute
    \/ ChkAssertExecute
    \/ ChkUseExecute

(***************************************************************************)
(*                   MPISync::setup, the variables                         *)
(***************************************************************************)

\* The fields a tool may name.
MaxSetupFields == 2

\* The longest array of the registry.
MaxSetupLen == 2

\* The types of the variables of the registry.
SetupTypes ==
    {t \in TypeNames : t.base \in {"unsigned int", "float"} /\ t.suffix = ""}

\* What Variables::get finds under a name: nothing (NULL), or a variable
\* with its type and its number of elements.
SetupVars ==
    {v \in [registered : BOOLEAN, type : SetupTypes, n : 1..MaxSetupLen] :
        v.registered \/ (v.type.base = "float" /\ v.type.star = "" /\ v.n = 1)}

\* std::string::find('*') == std::string::npos
NoStar(type) == \A i \in DOMAIN TypeChars(type) : TypeChars(type)[i] # "*"

\* std::string::compare("unsigned int*") != 0
NotMaskType(type) == TypeChars(type) # CharsUnsignedInt \o <<"*">>

\* The loop over _field_names of a variables() without the test n != _n.
RECURSIVE fieldsLoopNoLength(_, _, _, _)
fieldsLoopNoLength(field_vars, i, _n, fields) ==
    IF i > Len(field_vars) THEN [error |-> "", fields |-> fields]
    ELSE IF ~field_vars[i].registered
    THEN [error |-> "Invalid variable", fields |-> fields]
    ELSE IF NoStar(field_vars[i].type)
    THEN [error |-> "Invalid variable type", fields |-> fields]
    ELSE fieldsLoopNoLength(field_vars, i + 1, _n, Append(fields, i))

\* MPISync::variables, the loop over _field_names: the first field that is
\* not registered, is a scalar or has another length than the mask ends it.
RECURSIVE fieldsLoop(_, _, _, _)
fieldsLoop(field_vars, i, _n, fields) ==
    IF i > Len(field_vars) THEN [error |-> "", fields |-> fields]
    ELSE IF ~field_vars[i].registered
    THEN [error |-> "Invalid variable", fields |-> fields]
    ELSE IF NoStar(field_vars[i].type)
    THEN [error |-> "Invalid variable type", fields |-> fields]
    ELSE IF field_vars[i].n # _n
    THEN [error |-> "Invalid variable length", fields |-> fields]
    ELSE fieldsLoop(field_vars, i + 1, _n, Append(fields, i))

\* MPISync::variables: the members it leaves and the exception it throws.
variables(mask_var, field_vars) ==
    IF ~mask_var.registered
    THEN [error |-> "Invalid variable", mask |-> FALSE, n |-> 0,
          fields |-> <<>>, deps |-> <<>>]
    ELSE IF NotMaskType(mask_var.type)
    THEN [error |-> "Invalid variable type", mask |-> FALSE, n |-> 0,
          fields |-> <<>>, deps |-> <<>>]
    ELSE LET loop == fieldsLoop(field_vars, 1, mask_var.n, <<>>)
         IN  [error |-> loop.error, mask |-> TRUE, n |-> mask_var.n,
              fields |-> loop.fields,
              deps |-> IF loop.error = "" THEN Append(loop.fields, 0)
                       ELSE <<>>]

\* The MPISync tool after its construction.
VarSetup(mask_var, field_vars) ==
    /\ vMaskVar = mask_var
    /\ vFieldVars = field_vars
    /\ vPc = "new"
    /\ vError = ""
    /\ vMask = FALSE
    /\ vN = 0
    /\ vFields = <<>>
    /\ vDeps = <<>>
    /\ vBuilt = <<>>

VarInit ==
    \E mask_var \in SetupVars :
        \E field_vars \in UNION {[1..k -> SetupVars] : k \in 1..MaxSetupFields} :
            VarSetup(mask_var, field_vars)

VarIdle ==
    VarSetup([registered |-> FALSE,
              type |-> [base |-> "float", suffix |-> "", star |-> ""], n |-> 1],
             <<[registered |-> FALSE,
                type |-> [base |-> "float", suffix |-> "", star |-> ""],
                n |-> 1]>>)

\* MPISync::setup whose variables() throws: the exception leaves setup before
\* setupSort, setupFieldSort, setupSenders and setupReceivers.
MPISyncSetupThrow ==
    /\ UNCHANGED notVar
    /\ vPc = "new"
    /\ LET v == variables(vMaskVar, vFieldVars)
       IN  /\ v.error # ""
           /\ vError' = v.error
           /\ vMask' = v.mask
           /\ vN' = v.n
           /\ vFields' = v.fields
           /\ vDeps' = v.deps
    /\ vPc' = "failed"
    /\ UNCHANGED <<vMaskVar, vFieldVars, vBuilt>>

\* MPISync::setup: variables(), the sorter of the mask, a sorter per field, the
\* senders and the receivers.
MPISyncSetup ==
    /\ UNCHANGED notVar
    /\ vPc = "new"
    /\ LET v == variables(vMaskVar, vFieldVars)
       IN  /\ v.error = ""
           /\ vMask' = v.mask
           /\ vN' = v.n
           /\ vFields' = v.fields
           /\ vDeps' = v.deps
           /\ vBuilt' = <<"sort">>
                  \o [i \in DOMAIN v.fields |-> "field sort"]
                  \o <<"senders", "receivers">>
    /\ vPc' = "ready"
    /\ UNCHANGED <<vMaskVar, vFieldVars, vError>>

VarNext ==
    \/ MPISyncSetupThrow
    \/ MPISyncSetup

(***************************************************************************)
(*                                Reports                                  *)
(***************************************************************************)

\* Iterations of the simulation explored.
MaxReportIters == 3

\* The largest ipf and fps of a report.
MaxKnob == 2

\* Half units of time in a unit: repT counts them.
TimeScale == 2

\* The time steps of an iteration, in half units of time.
TimeSteps == {0, 1, 2}

\* Report::mustUpdate never answering true.
mustUpdateNever(ipf, fps, iter, t, _iter, _t) ==
    [update |-> FALSE, _iter |-> _iter, _t |-> _t]

\* Report::mustUpdate: the answer and the _iter and _t it leaves. The
\* difference iter - _iter is taken on unsigned int; t - _t >= 1.f / _fps is
\* evaluated on the half units.
mustUpdate(ipf, fps, iter, t, _iter, _t) ==
    IF ipf > 0 /\ ((iter - _iter) % Word) >= ipf
    THEN [update |-> TRUE, _iter |-> iter, _t |-> t]
    ELSE IF fps > 0 /\ (t - _t) * fps >= TimeScale
    THEN [update |-> TRUE, _iter |-> iter, _t |-> t]
    ELSE [update |-> FALSE, _iter |-> _iter, _t |-> _t]

RepNoCall == [ran |-> FALSE, wrote |-> FALSE, iter |-> 0, t |-> 0,
              _iter |-> 0, _t |-> 0]

\* Report::Report: _iter(0), _t(0.f); a TabFile is built as
\* Report(tool_name, fields), that is with ipf = 1 and fps = 0.
RepSetup(kind, ipf, fps) ==
    /\ repKind = kind
    /\ repIpf = ipf
    /\ repFps = fps
    /\ repIter = 0
    /\ repT = 0
    /\ repLastIter = 0
    /\ repLastT = 0
    /\ repLast = RepNoCall

RepInit ==
    \/ \E ipf \in 0..MaxKnob, fps \in 0..MaxKnob : RepSetup("Report", ipf, fps)
    \/ RepSetup("TabFile", 1, 0)

RepIdle == RepSetup("Report", 1, 0)

\* The simulation moves on to the next iteration.
RepTimeStep ==
    /\ UNCHANGED notRep
    /\ repIter < MaxReportIters
    /\ repIter' = repIter + 1
    /\ \E dt \in TimeSteps : repT' = repT + dt
    /\ repLast' = [repLast EXCEPT !.ran = FALSE]
    /\ UNCHANGED <<repKind, repIpf, repFps, repLastIter, repLastT>>

\* The execute of a report that writes its output when mustUpdate answers
\* true.
ReportExecute ==
    /\ UNCHANGED notRep
    /\ repKind = "Report"
    /\ LET m == mustUpdate(repIpf, repFps, repIter, repT, repLastIter, repLastT)
       IN  /\ repLastIter' = m._iter
           /\ repLastT' = m._t
           /\ repLast' = [ran |-> TRUE, wrote |-> m.update, iter |-> repIter,
                          t |-> repT, _iter |-> repLastIter, _t |-> repLastT]
    /\ UNCHANGED <<repKind, repIpf, repFps, repIter, repT>>

\* TabFile::_execute: the line is written and flushed; mustUpdate is not
\* called.
TabFileExecute ==
    /\ UNCHANGED notRep
    /\ repKind = "TabFile"
    /\ repLast' = [ran |-> TRUE, wrote |-> TRUE, iter |-> repIter, t |-> repT,
                   _iter |-> repLastIter, _t |-> repLastT]
    /\ UNCHANGED <<repKind, repIpf, repFps, repIter, repT, repLastIter,
                   repLastT>>

RepNext ==
    \/ RepTimeStep
    \/ ReportExecute
    \/ TabFileExecute

(***************************************************************************)
(*                         nextPowerOf2, the loop                          *)
(***************************************************************************)

\* Arguments explored from each end of unsigned int and around its middle.
MaxPowArg == 12

\* The arguments of nextPowerOf2.
PowArgs ==
    (1..MaxPowArg) \cup {Word - k : k \in 1..MaxPowArg}
        \cup {(Word \div 2) + k : k \in 0..MaxPowArg}
        \cup {(Word \div 2) - k : k \in 1..MaxPowArg}

\* if (n & !(n & (n - 1)))
PowFirstTest(n) ==
    BitAnd(n, IF BitAnd(n, (n - 1) % Word) = 0 THEN 1 ELSE 0) # 0

PowSetup(n) ==
    /\ wN = n
    /\ wP = 1
    /\ wTurns = 0
    /\ wPc = "test"
    /\ wValue = 0

PowInit == \E n \in PowArgs : PowSetup(n)

PowIdle == PowSetup(1)

\* The first statement returns n.
PowReturnArg ==
    /\ UNCHANGED notPow
    /\ wPc = "test"
    /\ PowFirstTest(wN)
    /\ wPc' = "returned"
    /\ wValue' = wN
    /\ UNCHANGED <<wN, wP, wTurns>>

\* The first statement falls through to unsigned int p = 1.
PowEnter ==
    /\ UNCHANGED notPow
    /\ wPc = "test"
    /\ ~PowFirstTest(wN)
    /\ wPc' = "loop"
    /\ UNCHANGED <<wN, wP, wTurns, wValue>>

\* A turn of the loop, p <<= 1 on unsigned int. The turns are counted up to
\* one more than the bits of an unsigned int.
PowShift ==
    /\ UNCHANGED notPow
    /\ wPc = "loop"
    /\ wP < wN
    /\ wTurns <= WordBits
    /\ wP' = (2 * wP) % Word
    /\ wTurns' = wTurns + 1
    /\ UNCHANGED <<wN, wPc, wValue>>

\* The loop ends, return p.
PowReturn ==
    /\ UNCHANGED notPow
    /\ wPc = "loop"
    /\ ~(wP < wN)
    /\ wPc' = "returned"
    /\ wValue' = wP
    /\ UNCHANGED <<wN, wP, wTurns>>

PowNext ==
    \/ PowReturnArg
    \/ PowEnter
    \/ PowShift
    \/ PowReturn

(***************************************************************************)
(*                          replaceAll, the loop                           *)
(***************************************************************************)

\* The longest str at the call.
MaxStrLen == 3

\* The longest search and replace.
MaxPatternLen == 2

Chars == {"a", "b"}

Strings(max_len) == UNION {[1..n -> Chars] : n \in 0..max_len}

\* std::string::npos
npos == -1

\* Whether search stands in str at position pos (from 0).
MatchAt(str, search, pos) ==
    /\ pos + Len(search) <= Len(str)
    /\ SubSeq(str, pos + 1, pos + Len(search)) = search

\* std::string::find(search, pos): the first position >= pos where search
\* stands, or npos.
find(str, search, pos) ==
    IF \E q \in pos..Len(str) : MatchAt(str, search, q)
    THEN CHOOSE q \in pos..Len(str) :
             /\ MatchAt(str, search, q)
             /\ \A k \in pos..(q - 1) : ~MatchAt(str, search, k)
    ELSE npos

\* str.erase(pos, n)
erase(str, pos, n) == SubSeq(str, 1, pos) \o SubSeq(str, pos + n + 1, Len(str))

\* str.insert(pos, text)
insert(str, pos, text) ==
    SubSeq(str, 1, pos) \o text \o SubSeq(str, pos + 1, Len(str))

StrSetup(str, search, replace) ==
    /\ sOriginal = str
    /\ sStr = str
    /\ sSearch = search
    /\ sReplace = replace
    /\ sPos = 0
    /\ sTurns = 0
    /\ sLoc = "loop"

StrInit ==
    \E str \in Strings(MaxStrLen) :
        \E search \in Strings(MaxPatternLen) \ {<<>>} :
            \E replace \in Strings(MaxPatternLen) : StrSetup(str, search, replace)

StrIdle == StrSetup(<<>>, <<"a">>, <<>>)

\* A turn of the loop: search was found at pos, it is erased and replace is
\* inserted there; pos stays where replace now begins. The turns are counted
\* up to one more than the length of str at the call.
replaceAllTurn ==
    /\ UNCHANGED notStr
    /\ sLoc = "loop"
    /\ find(sStr, sSearch, sPos) # npos
    /\ sTurns <= Len(sOriginal)
    /\ LET pos == find(sStr, sSearch, sPos)
       IN  /\ sPos' = pos
           /\ sStr' = insert(erase(sStr, pos, Len(sSearch)), pos, sReplace)
    /\ sTurns' = sTurns + 1
    /\ UNCHANGED <<sOriginal, sSearch, sReplace, sLoc>>

\* find answers npos and the loop ends.
replaceAllReturn ==
    /\ UNCHANGED notStr
    /\ sLoc = "loop"
    /\ find(sStr, sSearch, sPos) = npos
    /\ sLoc' = "returned"
    /\ UNCHANGED <<sOriginal, sStr, sSearch, sReplace, sPos, sTurns>>

StrNext ==
    \/ replaceAllTurn
    \/ replaceAllReturn

(***************************************************************************)
(*                  MPISync::MPISync, the list of peers                    *)
(***************************************************************************)

\* The longest list of processes a caller passes.
MaxProcs == 3

\* The largest number of processes.
MaxMpiSize == 3

\* The ids a caller may name: the ranks, and one id no process has.
ProcIds == 0..MaxMpiSize

\* vector::erase(begin() + i), i counted from 0.
EraseAt(procs, i) == SubSeq(procs, 1, i) \o SubSeq(procs, i + 2, Len(procs))

\* The loop of the constructor with the index kept in place after an erase.
RECURSIVE eraseLoopInPlace(_, _, _, _)
eraseLoopInPlace(procs, i, mpi_rank, mpi_size) ==
    IF ~(i < Len(procs)) THEN procs
    ELSE IF procs[i + 1] = mpi_rank \/ procs[i + 1] >= mpi_size
    THEN eraseLoopInPlace(EraseAt(procs, i), i, mpi_rank, mpi_size)
    ELSE eraseLoopInPlace(procs, i + 1, mpi_rank, mpi_size)

\* The loop of the constructor, for (i = 0; i < _procs.size(); i++): an entry
\* that is the local rank or no rank is erased, and i is incremented after
\* the erase too.
RECURSIVE eraseLoop(_, _, _, _)
eraseLoop(procs, i, mpi_rank, mpi_size) ==
    IF ~(i < Len(procs)) THEN procs
    ELSE IF procs[i + 1] = mpi_rank \/ procs[i + 1] >= mpi_size
    THEN eraseLoop(EraseAt(procs, i), i + 1, mpi_rank, mpi_size)
    ELSE eraseLoop(procs, i + 1, mpi_rank, mpi_size)

\* The constructor: an empty list stands for every rank.
MPISyncProcs(procs, mpi_rank, mpi_size) ==
    LET all == IF Len(procs) = 0 THEN [i \in 1..mpi_size |-> i - 1] ELSE procs
    IN  eraseLoop(all, 0, mpi_rank, mpi_size)

CtorSetup(procs, mpi_rank, mpi_size) ==
    /\ kInput = procs
    /\ kRank = mpi_rank
    /\ kSize = mpi_size
    /\ kProcs = procs
    /\ kPc = "new"
    /\ kLast = "none"

CtorInit ==
    \E mpi_size \in 1..MaxMpiSize :
        \E mpi_rank \in 0..(mpi_size - 1) :
            \E procs \in UNION {[1..n -> ProcIds] : n \in 0..MaxProcs} :
                CtorSetup(procs, mpi_rank, mpi_size)

CtorIdle == CtorSetup(<<>>, 0, 1)

\* MPISync::MPISync
MPISyncConstruct ==
    /\ UNCHANGED notCtor
    /\ kPc = "new"
    /\ kProcs' = MPISyncProcs(kInput, kRank, kSize)
    /\ kPc' = "built"
    /\ UNCHANGED <<kInput, kRank, kSize, kLast>>

\* MPISync::_execute with no peer: if(!_procs.size()) return NULL;
MPISyncExecuteNoPeer ==
    /\ UNCHANGED notCtor
    /\ kPc = "built"
    /\ Len(kProcs) = 0
    /\ kLast' = "returned"
    /\ UNCHANGED <<kInput, kRank, kSize, kProcs, kPc>>

\* MPISync::_execute with peers: the sort, the senders and the receivers.
MPISyncExecutePeers ==
    /\ UNCHANGED notCtor
    /\ kPc = "built"
    /\ Len(kProcs) # 0
    /\ kLast' = "exchanged"
    /\ UNCHANGED <<kInput, kRank, kSize, kProcs, kPc>>

CtorNext ==
    \/ MPISyncConstruct
    \/ MPISyncExecuteNoPeer
    \/ MPISyncExecutePeers

(***************************************************************************)
(*                 LinkList::_execute, the order of its steps              *)
(***************************************************************************)
MaxOrdExecs == 2

OrdExecs == 1..MaxOrdExecs

\* The commands behind the events: the upstream writer of r, the two
\* reductions, the three kernels and the radix sort.
OrdKinds == {"r", "min", "max", "iCell", "sort", "iHoc", "linkList"}

\* An event is named by the command that signals it and by the call.
OrdEvents == OrdKinds \X OrdExecs

\* The event of a variable nothing has written yet.
OrdNone == <<"none", 0>>

OrdVarNames == {"r", "r_min", "r_max", "ihoc", "icell", "n_cells"}

\* getOutputDependencies() of the LinkList tool.
OrdOutputs == {"r_min", "r_max", "ihoc", "icell", "n_cells"}

\* CL_COMPLETE of an event.
OrdComplete(status, event) == event = OrdNone \/ status[event] = "complete"

\* The command behind an event is executing or has executed.
OrdStarted(status, event) == status[event] \in {"running", "complete"}

\* A host that does not wait for the reductions.
ncellsEventsNone(writer) == {}

\* const cl_event ncells_events[2] = { r_min->getWritingEvent(),
\*                                     r_max->getWritingEvent() };
ncellsEvents(writer) == {writer["r_min"], writer["r_max"]}

\* An iHoc kernel enqueued with no wait list.
iHocWaitNone(writer) == {}

\* auto event_wait = icell->getWritingEvent(); the wait list of iHoc.
iHocWait(writer) == {writer["icell"]}

\* The wait list of the radix sort: Tool::execute collects the events of the
\* variables the sort works on, icell among them.
sortWait(writer) == {writer["icell"]}

\* LinkList::setup and the state before the first call.
OrdSetup ==
    /\ oPc = "idle"
    /\ oExec = 0
    /\ oStatus = [e \in OrdEvents |-> "none"]
    /\ oWaits = [e \in OrdEvents |-> {}]
    /\ oWriter = [v \in OrdVarNames |-> OrdNone]
    /\ oEvents = {}
    /\ oOut = [e \in OrdExecs |-> OrdNone]
    /\ oSeen = [e \in OrdExecs |-> <<"none", "none">>]

OrdInit == OrdSetup

OrdIdle == OrdSetup

\* An earlier tool of the pipeline writes r, then Tool::execute collects the
\* wait list and LinkList::_execute runs the two reductions:
\* _min_pos->execute(); _max_pos->execute(); each waits for the writer of r
\* and publishes its event on its output.
OrdReductions ==
    /\ UNCHANGED notOrd
    /\ oPc = "idle"
    /\ oExec < MaxOrdExecs
    /\ LET e      == oExec + 1
           writer == [oWriter EXCEPT !["r"] = <<"r", e>>]
       IN  /\ oExec' = e
           /\ oEvents' = {writer[v] : v \in OrdVarNames} \ {OrdNone}
           /\ oStatus' = [oStatus EXCEPT ![<<"r", e>>] = "queued",
                                         ![<<"min", e>>] = "queued",
                                         ![<<"max", e>>] = "queued"]
           /\ oWaits' = [oWaits EXCEPT ![<<"min", e>>] = {<<"r", e>>},
                                       ![<<"max", e>>] = {<<"r", e>>}]
           /\ oWriter' = [writer EXCEPT !["r_min"] = <<"min", e>>,
                                        !["r_max"] = <<"max", e>>]
    /\ oPc' = "wait"
    /\ UNCHANGED <<oOut, oSeen>>

\* clWaitForEvents(2, ncells_events) returns, then nCells(), allocate() and
\* setVariables() run on the host.
OrdSizeGrid ==
    /\ UNCHANGED notOrd
    /\ oPc = "wait"
    /\ \A event \in ncellsEvents(oWriter) : OrdComplete(oStatus, event)
    /\ oSeen' = [oSeen EXCEPT ![oExec] = <<oStatus[<<"min", oExec>>],
                                           oStatus[<<"max", oExec>>]>>]
    /\ oPc' = "sized"
    /\ UNCHANGED <<oExec, oStatus, oWaits, oWriter, oEvents, oOut>>

\* clEnqueueNDRangeKernel of iCell on the wait list of the tool, then
\* icell->setWritingEvent(event).
OrdICell ==
    /\ UNCHANGED notOrd
    /\ oPc = "sized"
    /\ oStatus' = [oStatus EXCEPT ![<<"iCell", oExec>>] = "queued"]
    /\ oWaits' = [oWaits EXCEPT ![<<"iCell", oExec>>] = oEvents]
    /\ oWriter' = [oWriter EXCEPT !["icell"] = <<"iCell", oExec>>]
    /\ oPc' = "icell"
    /\ UNCHANGED <<oExec, oEvents, oOut, oSeen>>

\* _sort->execute(): the sort waits for the events of its variables and
\* publishes its event as the writing event of icell.
OrdSort ==
    /\ UNCHANGED notOrd
    /\ oPc = "icell"
    /\ oStatus' = [oStatus EXCEPT ![<<"sort", oExec>>] = "queued"]
    /\ oWaits' = [oWaits EXCEPT ![<<"sort", oExec>>] = sortWait(oWriter)]
    /\ oWriter' = [oWriter EXCEPT !["icell"] = <<"sort", oExec>>]
    /\ oPc' = "sorted"
    /\ UNCHANGED <<oExec, oEvents, oOut, oSeen>>

\* clEnqueueNDRangeKernel of iHoc on event_wait.
OrdIHoc ==
    /\ UNCHANGED notOrd
    /\ oPc = "sorted"
    /\ oStatus' = [oStatus EXCEPT ![<<"iHoc", oExec>>] = "queued"]
    /\ oWaits' = [oWaits EXCEPT ![<<"iHoc", oExec>>] = iHocWait(oWriter)]
    /\ oPc' = "ihoc"
    /\ UNCHANGED <<oExec, oWriter, oEvents, oOut, oSeen>>

\* event_wait = event; clEnqueueNDRangeKernel of linkList on it; return event;
\* Tool::execute then publishes the returned event on the outputs.
OrdLinkList ==
    /\ UNCHANGED notOrd
    /\ oPc = "ihoc"
    /\ oStatus' = [oStatus EXCEPT ![<<"linkList", oExec>>] = "queued"]
    /\ oWaits' = [oWaits EXCEPT ![<<"linkList", oExec>>] = {<<"iHoc", oExec>>}]
    /\ oOut' = [oOut EXCEPT ![oExec] = <<"linkList", oExec>>]
    /\ oWriter' = [v \in OrdVarNames |->
                      IF v \in OrdOutputs THEN <<"linkList", oExec>>
                      ELSE oWriter[v]]
    /\ oPc' = "idle"
    /\ UNCHANGED <<oExec, oEvents, oSeen>>

\* The device starts a command whose wait list has completed.
OrdDeviceStart ==
    /\ UNCHANGED notOrd
    /\ \E event \in OrdEvents :
         /\ oStatus[event] = "queued"
         /\ \A w \in oWaits[event] : OrdComplete(oStatus, w)
         /\ oStatus' = [oStatus EXCEPT ![event] = "running"]
    /\ UNCHANGED <<oPc, oExec, oWaits, oWriter, oEvents, oOut, oSeen>>

\* The device finishes a command and signals its event.
OrdDeviceEnd ==
    /\ UNCHANGED notOrd
    /\ \E event \in OrdEvents :
         /\ oStatus[event] = "running"
         /\ oStatus' = [oStatus EXCEPT ![event] = "complete"]
    /\ UNCHANGED <<oPc, oExec, oWaits, oWriter, oEvents, oOut, oSeen>>

OrdNext ==
    \/ OrdReductions
    \/ OrdSizeGrid
    \/ OrdICell
    \/ OrdSort
    \/ OrdIHoc
    \/ OrdLinkList
    \/ OrdDeviceStart
    \/ OrdDeviceEnd

(***************************************************************************)
(*               Reduction::_execute, the chain of its events              *)
(***************************************************************************)
MaxPasses == 3

\* A null cl_event.
NoEvent == "NULL"

\* The event of pass i (counted from 1) and of the read-back.
PassEvent(i) == <<"pass", i>>

ReadEvent == <<"read", 0>>

InputEvent == <<"input", 0>>

ChainEvents ==
    {InputEvent, ReadEvent, <<"tool", 1>>, <<"tool", 2>>}
        \cup {PassEvent(i) : i \in 1..MaxPasses}

\* The wait lists Tool::execute may hand over besides the event of the input.
ToolWaitLists == {<<>>, <<<<"tool", 1>>>>, <<<<"tool", 1>>, <<"tool", 2>>>>}

SeqRange(s) == {s[i] : i \in DOMAIN s}

\* A pass enqueued with no wait list.
passWaitNone(event) == {}

\* num_events_in_wait_list = event ? 1 : 0; event_wait_list = event ? &event
\* : NULL.
passWait(event) == IF event # NoEvent THEN {event} ELSE {}

\* read_events = events; read_events.push_back(event).
readEvents(events, event) == Append(events, event)

NoChainCount == [e \in ChainEvents |-> 0]

\* Reduction::setupOpenCL has built the kernels; a call begins.
ChainSetup(kernels, input, events) ==
    /\ cKernels = kernels
    /\ cInput = input
    /\ cEvents = events
    /\ cEvent = NoEvent
    /\ cI = 0
    /\ cPc = "entry"
    /\ cCmds = <<>>
    /\ cCreated = NoChainCount
    /\ cRetained = NoChainCount
    /\ cReleased = NoChainCount

\* The input variable has a writing event or none; when it has one, the
\* wait list of the tool may hold it as well.
ChainInit ==
    \E kernels \in 0..MaxPasses, input \in {NoEvent, InputEvent},
       list \in ToolWaitLists, listed \in BOOLEAN :
        /\ listed => input # NoEvent
        /\ ChainSetup(kernels, input,
                      IF listed THEN <<input>> \o list ELSE list)

ChainIdle == ChainSetup(1, NoEvent, <<>>)

\* event = _input_var->getWritingEvent(); if (event) clRetainEvent(event).
ChainEnter ==
    /\ UNCHANGED notChain
    /\ cPc = "entry"
    /\ cEvent' = cInput
    /\ cRetained' = IF cInput # NoEvent
                    THEN [cRetained EXCEPT ![cInput] = @ + 1] ELSE cRetained
    /\ cI' = 0
    /\ cPc' = "loop"
    /\ UNCHANGED <<cKernels, cInput, cEvents, cCmds, cCreated, cReleased>>

\* One turn of for (i = 0; i < _kernels.size(); i++): the pass is enqueued
\* on event, event is released when it is not null and replaced by the
\* event of the pass.
ChainPass ==
    /\ UNCHANGED notChain
    /\ cPc = "loop"
    /\ cI < cKernels
    /\ LET out_event == PassEvent(cI + 1)
       IN  /\ cCmds' = Append(cCmds, [kind |-> "pass", wait |-> passWait(cEvent),
                                      out |-> out_event])
           /\ cCreated' = [cCreated EXCEPT ![out_event] = @ + 1]
           /\ cReleased' = IF cEvent # NoEvent
                           THEN [cReleased EXCEPT ![cEvent] = @ + 1]
                           ELSE cReleased
           /\ cEvent' = out_event
    /\ cI' = cI + 1
    /\ UNCHANGED <<cKernels, cInput, cEvents, cPc, cRetained>>

\* clEnqueueReadBuffer(..., CL_TRUE, ..., read_events.size(),
\* read_events.data(), &out_event), clReleaseEvent(event), event = out_event.
ChainRead ==
    /\ UNCHANGED notChain
    /\ cPc = "loop"
    /\ cI = cKernels
    /\ cEvent # NoEvent
    /\ cCmds' = Append(cCmds, [kind |-> "read",
                               wait |-> SeqRange(readEvents(cEvents, cEvent)),
                               out |-> ReadEvent])
    /\ cCreated' = [cCreated EXCEPT ![ReadEvent] = @ + 1]
    /\ cReleased' = [cReleased EXCEPT ![cEvent] = @ + 1]
    /\ cEvent' = ReadEvent
    /\ cPc' = "done"
    /\ UNCHANGED <<cKernels, cInput, cEvents, cI, cRetained>>

\* With no kernel and no writing event on the input, read_events ends with a
\* null event: clEnqueueReadBuffer answers CL_INVALID_EVENT_WAIT_LIST and
\* _execute throws.
ChainReadThrow ==
    /\ UNCHANGED notChain
    /\ cPc = "loop"
    /\ cI = cKernels
    /\ cEvent = NoEvent
    /\ cPc' = "failed"
    /\ UNCHANGED <<cKernels, cInput, cEvents, cEvent, cI, cCmds, cCreated,
                   cRetained, cReleased>>

ChainNext ==
    \/ ChainEnter
    \/ ChainPass
    \/ ChainRead
    \/ ChainReadThrow

(***************************************************************************)
(*                         LinkList, the cell edge                         *)
(***************************************************************************)
MaxEdgeExecs == 2

MaxScalar == 3

\* The values support and h take, in units that keep the products integer.
Scalars == 1..MaxScalar

\* LinkList::setup: _cell_length = *(float*)s->get() * *(float*)h->get().
cellLength(support, h) == support * h

\* LinkList::setVariables on slots 5 and 6 of iCell: clSetKernelArg when the
\* registry differs from the shadow copy.
setVariablesScalars(kargs, shadow, reg) ==
    [i \in 1..2 |-> IF reg[i] = shadow[i] THEN kargs[i] ELSE reg[i]]

EdgeNoCall == [edge |-> 0, support |-> 0, h |-> 0, kargs |-> <<0, 0>>]

\* LinkList::setup, setupOpenCL included.
EdgeSetup(support, h) ==
    /\ eSupport = support
    /\ eH = h
    /\ eCellLength = cellLength(support, h)
    /\ eKArgs = <<support, h>>
    /\ eShadow = <<support, h>>
    /\ eExecs = 0
    /\ eLast = EdgeNoCall

EdgeInit == \E support \in Scalars, h \in Scalars : EdgeSetup(support, h)

EdgeIdle == EdgeSetup(1, 1)

\* A tool of the pipeline sets support or h on the registry.
EdgeSetScalar ==
    /\ UNCHANGED notEdge
    /\ \E support \in Scalars, h \in Scalars :
         /\ support = eSupport \/ h = eH
         /\ <<support, h>> # <<eSupport, eH>>
         /\ eSupport' = support
         /\ eH' = h
    /\ UNCHANGED <<eCellLength, eKArgs, eShadow, eExecs, eLast>>

\* LinkList::_execute: nCells() divides by _cell_length, setVariables()
\* binds support and h from the registry, iCell is enqueued.
EdgeExecute ==
    /\ UNCHANGED notEdge
    /\ eExecs < MaxEdgeExecs
    /\ LET reg   == <<eSupport, eH>>
           kargs == setVariablesScalars(eKArgs, eShadow, reg)
       IN  /\ eKArgs' = kargs
           /\ eShadow' = setVariablesScalars(eShadow, eShadow, reg)
           /\ eLast' = [edge |-> eCellLength, support |-> eSupport,
                        h |-> eH, kargs |-> kargs]
    /\ eExecs' = eExecs + 1
    /\ UNCHANGED <<eSupport, eH, eCellLength>>

EdgeNext ==
    \/ EdgeSetScalar
    \/ EdgeExecute

(***************************************************************************)
(*                  Reduction, the user event of each call                 *)
(***************************************************************************)
MaxUsrExecs == 3

UsrCalls == 1..MaxUsrExecs

\* Reduction::setup; no call yet.
UsrSetup ==
    /\ uExecs = 0
    /\ uUserEvent = 0
    /\ uRead = [k \in UsrCalls |-> "none"]
    /\ uStatus = [k \in UsrCalls |-> "none"]
    /\ uMarker = [k \in UsrCalls |-> "none"]
    /\ uCallback = [k \in UsrCalls |-> "none"]
    /\ uSetOn = [k \in UsrCalls |-> 0]
    /\ uReleased = [k \in UsrCalls |-> 0]

UsrInit == UsrSetup

UsrIdle == UsrSetup

\* The command queue is in order: the blocking read of a call returns only
\* once the marker of the call before it has completed or was terminated.
UsrQueueDrained == uExecs > 0 => uMarker[uExecs] \in {"complete", "error"}

\* clSetUserEventStatus: the status of a user event is set once; a second
\* call on the same event fails and leaves it.
SetUserEventStatus(status, event, value) ==
    IF status[event] = "submitted"
    THEN [status EXCEPT ![event] = value] ELSE status

\* Reduction::_execute from the blocking read on: _user_event =
\* clCreateUserEvent(...), clRetainEvent(_user_event), clSetEventCallback on
\* the event of the read, the marker on top of the user event.
UsrExecute ==
    /\ UNCHANGED notUsr
    /\ uExecs < MaxUsrExecs
    /\ UsrQueueDrained
    /\ LET k == uExecs + 1
       IN  /\ uExecs' = k
           /\ uUserEvent' = k
           /\ \E status \in {"complete", "error"} :
                 uRead' = [uRead EXCEPT ![k] = status]
           /\ uStatus' = [uStatus EXCEPT ![k] = "submitted"]
           /\ uMarker' = [uMarker EXCEPT ![k] = "queued"]
           /\ uCallback' = [uCallback EXCEPT ![k] = "registered"]
    /\ UNCHANGED <<uSetOn, uReleased>>

\* populator up to clSetUserEventStatus(tool->getUserEvent(), ...), with
\* vars->populate(var) before it when the status is CL_COMPLETE: the user
\* event is the one the tool holds when the callback thread gets there.
UsrPopulatorSet(k) ==
    /\ UNCHANGED notUsr
    /\ uCallback[k] = "registered"
    /\ uStatus' = SetUserEventStatus(uStatus, uUserEvent, uRead[k])
    /\ uSetOn' = [uSetOn EXCEPT ![k] = uUserEvent]
    /\ uCallback' = [uCallback EXCEPT ![k] = "set"]
    /\ UNCHANGED <<uExecs, uUserEvent, uRead, uMarker, uReleased>>

\* populator, clReleaseEvent(tool->getUserEvent()): the tool is asked again,
\* on the callback thread, for the user event it holds.
UsrPopulatorRelease(k) ==
    /\ UNCHANGED notUsr
    /\ uCallback[k] = "set"
    /\ uReleased' = [uReleased EXCEPT ![k] = uUserEvent]
    /\ uCallback' = [uCallback EXCEPT ![k] = "done"]
    /\ UNCHANGED <<uExecs, uUserEvent, uRead, uStatus, uMarker, uSetOn>>

\* The device completes or terminates the marker once the user event it
\* waits on has a terminal status.
UsrMarkerDone(k) ==
    /\ UNCHANGED notUsr
    /\ uMarker[k] = "queued"
    /\ uStatus[k] \in {"complete", "error"}
    /\ uMarker' = [uMarker EXCEPT ![k] = uStatus[k]]
    /\ UNCHANGED <<uExecs, uUserEvent, uRead, uStatus, uCallback, uSetOn,
                   uReleased>>

UsrNext ==
    \/ UsrExecute
    \/ \E k \in UsrCalls : UsrPopulatorSet(k)
    \/ \E k \in UsrCalls : UsrPopulatorRelease(k)
    \/ \E k \in UsrCalls : UsrMarkerDone(k)

(***************************************************************************)
(*               MPISync::Sender, what a send callback reads               *)
(***************************************************************************)
MaxSndIters == 2

MaxSndFields == 2

SndIters == 1..MaxSndIters

\* user_data->tag = i + 1 for the field i.
SndTags == 1..MaxSndFields

\* MPISync::Sender::Sender; no call yet.
SndSetup ==
    /\ dIter = 0
    /\ dOffset = 0
    /\ dN = 0
    /\ dComputed = [k \in SndIters |-> <<>>]
    /\ dCalls = {}
    /\ dUsed = [k \in SndIters |-> [t \in SndTags |-> <<>>]]

SndInit == SndSetup

SndIdle == SndSetup

\* MPISync::Sender::execute: the blocking reads of _n_offset_reduction and
\* _n_send_reduction store the offset and the count in the host values of
\* n_offset and n_send; then, for every field, a marker is enqueued and
\* cbMPISend is registered on it with user_data->offset and user_data->n
\* pointing at those host values.
SenderExecute ==
    /\ UNCHANGED notSnd
    /\ dIter < MaxSndIters
    /\ \E offset \in 0..1, n \in 0..MaxCount :
         /\ dOffset' = offset
         /\ dN' = n
         /\ dComputed' = [dComputed EXCEPT ![dIter + 1] = <<offset, n>>]
    /\ dIter' = dIter + 1
    /\ dCalls' = dCalls \cup {<<dIter + 1, t>> : t \in SndTags}
    /\ UNCHANGED dUsed

\* cbMPISend, its first statements: unsigned int offset = *(data->offset);
\* unsigned int n = *(data->n); the count message of tag 0, the range of the
\* download and the length of the payload all come from these two locals.
cbMPISendEnter(c) ==
    /\ UNCHANGED notSnd
    /\ c \in dCalls
    /\ dUsed' = [dUsed EXCEPT ![c[1]][c[2]] = <<dOffset, dN>>]
    /\ dCalls' = dCalls \ {c}
    /\ UNCHANGED <<dIter, dOffset, dN, dComputed>>

SndNext ==
    \/ SenderExecute
    \/ \E c \in dCalls : cbMPISendEnter(c)

(***************************************************************************)
(*                            Specifications                               *)
(***************************************************************************)

\* The tool base left alone by the other specifications.
ToolIdle == ToolInit

InitTool == ToolInit /\ RedIdle /\ LLIdle /\ MPIIdle /\ SyncIdle /\ HostIdle
        /\ XchIdle /\ GridIdle /\ PassIdle /\ ChkIdle /\ VarIdle /\ RepIdle
        /\ PowIdle /\ StrIdle /\ CtorIdle /\ OrdIdle /\ ChainIdle /\ EdgeIdle
        /\ UsrIdle /\ SndIdle

SpecTool == InitTool /\ [][ToolNext]_vars

InitRed == RedInit /\ ToolIdle /\ LLIdle /\ MPIIdle /\ SyncIdle /\ HostIdle
        /\ XchIdle /\ GridIdle /\ PassIdle /\ ChkIdle /\ VarIdle /\ RepIdle
        /\ PowIdle /\ StrIdle /\ CtorIdle /\ OrdIdle /\ ChainIdle /\ EdgeIdle
        /\ UsrIdle /\ SndIdle

SpecRed == InitRed /\ [][RedNext]_vars

InitRedEnv ==
    RedEnvInit /\ ToolIdle /\ LLIdle /\ MPIIdle /\ SyncIdle /\ HostIdle
        /\ XchIdle /\ GridIdle /\ PassIdle /\ ChkIdle /\ VarIdle /\ RepIdle
        /\ PowIdle /\ StrIdle /\ CtorIdle /\ OrdIdle /\ ChainIdle /\ EdgeIdle
        /\ UsrIdle /\ SndIdle

\* Callbacks run once their event has terminated and the device terminates
\* the commands it was given.
SpecRedEnv == InitRedEnv /\ [][RedEnvNext]_vars /\ WF_vars(RedAsync)

InitLL == LLInit /\ ToolIdle /\ RedIdle /\ MPIIdle /\ SyncIdle /\ HostIdle
        /\ XchIdle /\ GridIdle /\ PassIdle /\ ChkIdle /\ VarIdle /\ RepIdle
        /\ PowIdle /\ StrIdle /\ CtorIdle /\ OrdIdle /\ ChainIdle /\ EdgeIdle
        /\ UsrIdle /\ SndIdle

SpecLL == InitLL /\ [][LLNext]_vars

InitMPI == MPIInit /\ ToolIdle /\ RedIdle /\ LLIdle /\ SyncIdle /\ HostIdle
        /\ XchIdle /\ GridIdle /\ PassIdle /\ ChkIdle /\ VarIdle /\ RepIdle
        /\ PowIdle /\ StrIdle /\ CtorIdle /\ OrdIdle /\ ChainIdle /\ EdgeIdle
        /\ UsrIdle /\ SndIdle

SpecMPI == InitMPI /\ [][MPINext]_vars

InitSync == SyncInit /\ ToolIdle /\ RedIdle /\ LLIdle /\ MPIIdle /\ HostIdle
        /\ XchIdle /\ GridIdle /\ PassIdle /\ ChkIdle /\ VarIdle /\ RepIdle
        /\ PowIdle /\ StrIdle /\ CtorIdle /\ OrdIdle /\ ChainIdle /\ EdgeIdle
        /\ UsrIdle /\ SndIdle

SpecSync == InitSync /\ [][SyncNext]_vars

InitHost ==
    HostInit /\ ToolIdle /\ RedIdle /\ LLIdle /\ MPIIdle /\ SyncIdle /\ XchIdle
        /\ GridIdle /\ PassIdle /\ ChkIdle /\ VarIdle /\ RepIdle /\ PowIdle
        /\ StrIdle /\ CtorIdle /\ OrdIdle /\ ChainIdle /\ EdgeIdle /\ UsrIdle
        /\ SndIdle

SpecHost == InitHost /\ [][HostNext]_vars

\* The pipeline, the callback threads, the device and the peers all keep
\* running: a step that stays possible is taken.
SpecMPILive == InitMPI /\ [][MPINext]_vars /\ WF_vars(MPINext)

InitXch == XchInit /\ ToolIdle /\ RedIdle /\ LLIdle /\ MPIIdle /\ SyncIdle
    /\ HostIdle /\ GridIdle /\ PassIdle /\ ChkIdle /\ VarIdle /\ RepIdle
        /\ PowIdle /\ StrIdle /\ CtorIdle /\ OrdIdle /\ ChainIdle /\ EdgeIdle
        /\ UsrIdle /\ SndIdle

SpecXch == InitXch /\ [][XchNext]_vars

InitGrid == GridInit /\ ToolIdle /\ RedIdle /\ LLIdle /\ MPIIdle /\ SyncIdle
        /\ HostIdle /\ XchIdle /\ PassIdle /\ ChkIdle /\ VarIdle /\ RepIdle
        /\ PowIdle /\ StrIdle /\ CtorIdle /\ OrdIdle /\ ChainIdle /\ EdgeIdle
        /\ UsrIdle /\ SndIdle

SpecGrid == InitGrid /\ [][GridNext]_vars

InitPass == PassInit /\ ToolIdle /\ RedIdle /\ LLIdle /\ MPIIdle /\ SyncIdle
        /\ HostIdle /\ XchIdle /\ GridIdle /\ ChkIdle /\ VarIdle /\ RepIdle
        /\ PowIdle /\ StrIdle /\ CtorIdle /\ OrdIdle /\ ChainIdle /\ EdgeIdle
        /\ UsrIdle /\ SndIdle

SpecPass == InitPass /\ [][PassNext]_vars

InitChk == ChkInit /\ ToolIdle /\ RedIdle /\ LLIdle /\ MPIIdle /\ SyncIdle
        /\ HostIdle /\ XchIdle /\ GridIdle /\ PassIdle /\ VarIdle /\ RepIdle
        /\ PowIdle /\ StrIdle /\ CtorIdle /\ OrdIdle /\ ChainIdle /\ EdgeIdle
        /\ UsrIdle /\ SndIdle

SpecChk == InitChk /\ [][ChkNext]_vars

InitVar == VarInit /\ ToolIdle /\ RedIdle /\ LLIdle /\ MPIIdle /\ SyncIdle
        /\ HostIdle /\ XchIdle /\ GridIdle /\ PassIdle /\ ChkIdle /\ RepIdle
        /\ PowIdle /\ StrIdle /\ CtorIdle /\ OrdIdle /\ ChainIdle /\ EdgeIdle
        /\ UsrIdle /\ SndIdle

SpecVar == InitVar /\ [][VarNext]_vars

InitRep == RepInit /\ ToolIdle /\ RedIdle /\ LLIdle /\ MPIIdle /\ SyncIdle
        /\ HostIdle /\ XchIdle /\ GridIdle /\ PassIdle /\ ChkIdle /\ VarIdle
        /\ PowIdle /\ StrIdle /\ CtorIdle /\ OrdIdle /\ ChainIdle /\ EdgeIdle
        /\ UsrIdle /\ SndIdle

SpecRep == InitRep /\ [][RepNext]_vars

InitPow == PowInit /\ ToolIdle /\ RedIdle /\ LLIdle /\ MPIIdle /\ SyncIdle
        /\ HostIdle /\ XchIdle /\ GridIdle /\ PassIdle /\ ChkIdle /\ VarIdle
        /\ RepIdle /\ StrIdle /\ CtorIdle /\ OrdIdle /\ ChainIdle /\ EdgeIdle
        /\ UsrIdle /\ SndIdle

SpecPow == InitPow /\ [][PowNext]_vars

InitStr == StrInit /\ ToolIdle /\ RedIdle /\ LLIdle /\ MPIIdle /\ SyncIdle
        /\ HostIdle /\ XchIdle /\ GridIdle /\ PassIdle /\ ChkIdle /\ VarIdle
        /\ RepIdle /\ PowIdle /\ CtorIdle /\ OrdIdle /\ ChainIdle /\ EdgeIdle
        /\ UsrIdle /\ SndIdle

SpecStr == InitStr /\ [][StrNext]_vars

InitCtor == CtorInit /\ ToolIdle /\ RedIdle /\ LLIdle /\ MPIIdle /\ SyncIdle
        /\ HostIdle /\ XchIdle /\ GridIdle /\ PassIdle /\ ChkIdle /\ VarIdle
        /\ RepIdle /\ PowIdle /\ StrIdle /\ OrdIdle /\ ChainIdle /\ EdgeIdle
        /\ UsrIdle /\ SndIdle

SpecCtor == InitCtor /\ [][CtorNext]_vars

InitOrd == OrdInit /\ ToolIdle /\ RedIdle /\ LLIdle /\ MPIIdle /\ SyncIdle
    /\ HostIdle /\ XchIdle /\ GridIdle /\ PassIdle /\ ChkIdle /\ VarIdle
    /\ RepIdle /\ PowIdle /\ StrIdle /\ CtorIdle /\ ChainIdle /\ EdgeIdle
        /\ UsrIdle /\ SndIdle

SpecOrd == InitOrd /\ [][OrdNext]_vars

InitChain == ChainInit /\ ToolIdle /\ RedIdle /\ LLIdle /\ MPIIdle /\ SyncIdle
    /\ HostIdle /\ XchIdle /\ GridIdle /\ PassIdle /\ ChkIdle /\ VarIdle
    /\ RepIdle /\ PowIdle /\ StrIdle /\ CtorIdle /\ OrdIdle /\ EdgeIdle
        /\ UsrIdle /\ SndIdle

SpecChain == InitChain /\ [][ChainNext]_vars

InitEdge == EdgeInit /\ ToolIdle /\ RedIdle /\ LLIdle /\ MPIIdle /\ SyncIdle
    /\ HostIdle /\ XchIdle /\ GridIdle /\ PassIdle /\ ChkIdle /\ VarIdle
    /\ RepIdle /\ PowIdle /\ StrIdle /\ CtorIdle /\ OrdIdle /\ ChainIdle
        /\ UsrIdle /\ SndIdle

SpecEdge == InitEdge /\ [][EdgeNext]_vars

InitUsr == UsrInit /\ ToolIdle /\ RedIdle /\ LLIdle /\ MPIIdle /\ SyncIdle
    /\ HostIdle /\ XchIdle /\ GridIdle /\ PassIdle /\ ChkIdle /\ VarIdle
    /\ RepIdle /\ PowIdle /\ StrIdle /\ CtorIdle /\ OrdIdle /\ ChainIdle
    /\ EdgeIdle /\ SndIdle

SpecUsr == InitUsr /\ [][UsrNext]_vars

InitSnd == SndInit /\ ToolIdle /\ RedIdle /\ LLIdle /\ MPIIdle /\ SyncIdle
    /\ HostIdle /\ XchIdle /\ GridIdle /\ PassIdle /\ ChkIdle /\ VarIdle
    /\ RepIdle /\ PowIdle /\ StrIdle /\ CtorIdle /\ OrdIdle /\ ChainIdle
    /\ EdgeIdle /\ UsrIdle

SpecSnd == InitSnd /\ [][SndNext]_vars

(***************************************************************************)
(*                                Claims                                   *)
(***************************************************************************)

C4_ReductionLaw ==
    (rExecs > 0 /\ ~rDirty) => rOutput = Fold(rOp, rMem[1], Identity(rOp))

\* C4 witness: a reduction of several passes whose first pass has a tail
\* (the element count is no multiple of the work-group size) has run, on
\* an array whose order matters to the operation.
C4_Witness ==
    /\ rExecs > 0
    /\ Len(rN) >= 2
    /\ rN[1] % rLocalSize # 0
    /\ ~rDirty
    /\ rOp = "right"
    /\ rMem[1] = <<1, 2, 1>>

\* C5: the out-event (the marker) of a call completes only after the
\* populator has run populate() on the value that call read back, so that
\* whoever waits on the out-event of the latest call sees it populated.
C5_PopulatedBeforeOutEvent ==
    \A k \in RedCalls :
        rMarker[k] = "complete" =>
            /\ rCallback[k] \in {"populated", "done"}
            /\ k = rExecs => rPopulated = rOutput

\* C5 witness: the marker of a second call has completed, its populator has
\* run and the value read back is populated.
C5_Witness ==
    /\ rExecs = 2
    /\ rMarker[2] = "complete"
    /\ rCallback[2] = "done"
    /\ rPopulated = rOutput
    /\ rOutput # 0

C6_ReallocationVisible ==
    (llExecs > 0 /\ llLast.realloc) =>
        /\ llIhoc # 0
        /\ llBuf[llIhoc] = llLast.required[4]
        /\ llNCells = llLast.required
        /\ llLast.old[1] # 0 =>
              \/ llBuf[llLast.old[1]] = -1
              \/ llGen[llLast.old[1]] > llLast.old[2]
        /\ \A k \in Kernels : \A i \in DOMAIN KernelVars[k] :
              KernelVars[k][i] \in {"ihoc", "n_cells"} =>
                  llLast.launch[k][i] =
                      Registry(llNCells, llIhoc, llRMin)[KernelVars[k][i]]

\* C6 witness: a call reallocated while an older buffer was bound.
C6_Witness ==
    /\ llLast.realloc
    /\ llLast.old[1] # 0
    /\ llNCells[4] > 0
    /\ llLast.launch["linkList"][2] = <<llIhoc>>

C2_Original ==
    mLast.tool # "" =>
        \A d \in Range(MPIDeps(mF)) :
            /\ mLast.out # NULL => mEvent[d] = mLast.out
            /\ mLast.out = NULL => mEvent[d] = mLast.before[d]

\* C2 amended: after Tool::execute returns, every dependency holds the
\* out-event of _execute when that event is not null; when _execute returned
\* null Tool::execute publishes nothing, so every dependency holds the event
\* _execute itself left on it, which is the event from before the call for
\* MPISync without peers.
C2_ToolExecutePublishes ==
    mLast.tool # "" =>
        \A d \in Range(MPIDeps(mF)) :
            /\ mLast.out # NULL => mEvent[d] = mLast.out
            /\ mLast.out = NULL => mEvent[d] = mLast.inner[d]
            /\ (mLast.out = NULL /\ mProcs = <<>>) => mEvent[d] = mLast.before[d]

\* C2 witness: MPISync with a peer returned null and left on a dependency
\* another event than the one from before the call.
C2_Witness ==
    /\ mLast.tool = "MPISync"
    /\ mLast.out = NULL
    /\ mProcs # <<>>
    /\ \E d \in Range(MPIDeps(mF)) :
          /\ mEvent[d] # mLast.before[d]
          /\ mEvent[d] = mLast.inner[d]

\* C8: once a receiver callback has received the count n, the value it
\* stores in recv_offset is its value at callback entry plus n.
C8_OffsetAdvanced ==
    \A k \in Peers :
        mRecv[k].pc \in {"signal", "zero", "mask", "field", "done"} =>
            mRecv[k].stored = mRecv[k].entry + mRecv[k].n

\* C9: within one iteration the callback of receiver k + 1 does not start
\* before the callback of receiver k has stored recv_offset and completed
\* its offset user event, and the callback of the first receiver does not
\* start before the reset of recv_offset has completed.
C9_ReceiversOrdered ==
    \A k \in Peers :
        mRecv[k].pc \notin {"none", "armed"} =>
            /\ k = 1 => ResetEvent(mIter) \in mDone
            /\ k > 1 => /\ mRecv[k - 1].pc \in {"zero", "mask", "field", "done"}
                        /\ mRecv[k - 1].offset_event \in mDone

\* C9 witness: the second receiver ran to its end after the first one had
\* received a positive count, and it read the offset the first one stored.
C9_Witness ==
    /\ mRecv[2].pc = "done"
    /\ mRecv[1].n > 0
    /\ mRecv[1].offset_event \in mDone
    /\ mRecv[2].entry = mRecv[1].stored

\* C10: in every iteration and for every number of declared fields, once the
\* sender of a peer has run its callbacks it has emitted exactly one count
\* message with tag 0 and, only for a positive count, exactly one payload
\* per field.
C10_Protocol ==
    \A p \in Range(mProcs) :
        (mSend[p].iter > 0 /\ \A i \in 1..mF : mSend[p].cb[i] = "done") =>
            /\ mSend[p].sent[0] = 1
            /\ \A i \in 1..mF :
                  mSend[p].sent[i] = IF mSend[p].n > 0 THEN 1 ELSE 0

\* Every user event a receiver may create, over the iterations explored.
AllUserEvents ==
    {UserEvent(it, k, i) : it \in 1..MaxMPIIters, k \in Peers,
                           i \in 0..(MaxFields + 1)}

\* C11: every user event created by MPISync::Receiver::execute (for
\* recv_offset, for the mask, for each field) is set to a terminal status
\* exactly once: its status is never set twice, and once a receiver holds it
\* it eventually completes, so that nothing waiting on the mask, on
\* recv_offset or on a field stays blocked forever.
C11_UserEventsTerminate ==
    /\ [](mSetTwice = {})
    /\ \A e \in AllUserEvents :
           (\E k \in Peers : /\ mRecv[k].pc # "none"
                              /\ e \in ReceiverUserEvents(mRecv[k], mF))
               ~> (e \in mDone)

\* The particles the mask of rank a assigned to rank b before the step.
Assigned(a, b) ==
    {ParticleId(a, j) : j \in {i \in 1..Len(sInitMask[a]) : sInitMask[a][i] = b}}

\* The particles rank r holds with a mask that reads rank.
HeldAs(r, rank) ==
    {sField[r][j] : j \in {i \in 1..Len(sField[r]) : sMask[r][i] = rank}}

\* C12: sync conservation.  After one MPISync step of two processes, for
\* each process A with peer B: B holds the K particles A assigned to it,
\* with a mask that reads B, in addition to the particles B owned; A no
\* longer owns the K particles it sent, so its owned count has fallen by K;
\* and the particles owned over both processes are those of before.
C12_SyncConservation ==
    (\A r \in Ranks : sPc[r] = "done") =>
        \A A \in Ranks :
            LET B == PeerOf(A)
            IN  /\ Assigned(A, B) \subseteq HeldAs(B, B)
                /\ Assigned(B, B) \subseteq HeldAs(B, B)
                /\ HeldAs(A, A) \cap Assigned(A, B) = {}
                /\ HeldAs(A, A) \cup HeldAs(B, B) =
                       UNION {Assigned(a, b) : a \in Ranks, b \in Ranks}

C14_UploadsBeforeReaders ==
    \A i \in 1..mF :
        (mProcs # <<>> /\ mRecv[Len(mProcs)].pc # "none"
                       /\ mRecv[Len(mProcs)].field_events[i] \in mDone) =>
            \A j \in Peers :
                mRecv[j].pc # "none" =>
                    /\ mRecv[j].field_events[i] \in mDone
                    /\ mRecv[j].field_events[i] \notin Range(mPendingSync)

\* C14 witness: the first of two receivers uploaded a slice into the field,
\* the second got a zero count, and the tool after MPISync has collected the
\* completed writing event of the field.
C14_Witness ==
    /\ Len(mProcs) = 2 /\ mF = 1
    /\ mRecv[1].pc = "done" /\ mRecv[1].n > 0
    /\ mRecv[2].pc = "done" /\ mRecv[2].n = 0
    /\ mRecv[2].field_events[1] \in mDone
    /\ mDownRan /\ mRecv[2].field_events[1] \in mQueueWaits

\* C15: the host buffer of a field is written by one callback at a time: no
\* two send callbacks are inside their download into it together, and no
\* download writes into a slice that a non-blocking send still in flight
\* is reading.
C15_HostBufferExclusive ==
    /\ Cardinality({c \in hCalls : c.pc = "reading"}) <= 1
    /\ ~hClobbered

\* C16: when _execute fails inside Tool::execute, every event of the wait
\* list that getEvents retained for the call is released before the error
\* leaves execute: a failed execute leaves no reference on any event.
C16_FailedExecuteReleases ==
    tLastRefs.failed =>
        /\ tLastRefs.released = tLastRefs.retained
        /\ tRetained = NoEventCount

\* C17: in every Tool::execute that completes, the wait list handed to
\* _execute holds the event of each dependency exactly once, also when
\* dependencies share an event; each listed event is retained once before
\* _execute and released once after it, so no reference is left.
C17_WaitListBalanced ==
    (tLastRan /\ ~tLastRefs.failed) =>
        /\ Range(tLastList) = {tBefore[v] : v \in Range(ToolDeps[tLastTool])}
        /\ \A i, j \in 1..Len(tLastList) :
              tLastList[i] = tLastList[j] => i = j
        /\ \A e \in ToolEventIds :
              /\ tLastRefs.retained[e] = IF e \in Range(tLastList) THEN 1 ELSE 0
              /\ tLastRefs.released[e] = tLastRefs.retained[e]
        /\ tRetained = NoEventCount

\* C17: a completed call of tool A whose two dependencies shared one event.
C17_Witness ==
    /\ tLastTool = "A"
    /\ tLastRan /\ ~tLastRefs.failed
    /\ tBefore["x"] = tBefore["y"]
    /\ Len(tLastList) = 1

\* C18: a tool created with once = true runs _execute only on its first
\* call that completes; every later call returns without collecting or
\* retaining events, and leaves the events of the dependencies and the
\* iteration counter as they were.
C18_OnceRunsOnce ==
    /\ [](\A t \in ToolNames : ToolOnce[t] => tIters[t] <= 1)
    /\ [][\A t \in ToolNames :
            (ToolOnce[t] /\ tIters[t] > 0 /\ tLastTool' = t) =>
                /\ ~tLastRan'
                /\ tLastList' = <<>>
                /\ tLastRefs'.retained = NoEventCount
                /\ tRetained' = tRetained
                /\ tEvent' = tEvent
                /\ tIters' = tIters]_vars

\* C18: the once tool C was called again after its completed call and the
\* call returned at once.
C18_Witness ==
    /\ ToolOnce["C"]
    /\ tLastTool = "C"
    /\ ~tLastRan
    /\ tIters["C"] = 1

\* C19: if the buffer of the input variable was reassigned since setup or
\* since the previous execute, the next Reduction::execute enqueues its
\* first pass on the current buffer of the variable, never on the replaced
\* one.
C19_InputRebound ==
    rExecs > 0 => rLastRead.arg = rLastRead.var

C21_BadTypeFatal ==
    /\ \A i \in DOMAIN xTypes :
          xSend[i] = "sent" => xDesc[i].t # "MPI::DATATYPE_NULL"
    /\ xRecv.pc \in {"returned", "done"} =>
          \A i \in DOMAIN xTypes : xFieldEvent[i] # "submitted"
\* The wire type of the scalar base of a type.
WireOf(base) ==
    CASE base \in {"int", "ivec"} -> "MPI::INT"
      [] base \in {"unsigned int", "uivec"} -> "MPI::UNSIGNED"
      [] base \in {"float", "vec"} -> "MPI::FLOAT"
      [] OTHER -> "MPI::DATATYPE_NULL"

\* The number of components a type name announces.
ComponentsOf(name, have_3d) ==
    CASE name.suffix = "2" -> 2
      [] name.suffix = "3" -> 3
      [] name.suffix = "4" -> 4
      [] OTHER -> IF name.base \in {"vec", "ivec", "uivec"}
                  THEN (IF have_3d THEN 4 ELSE 2)
                  ELSE 1

\* The type names the statement lists: the scalars and the vectors, with a
\* number of components or without.
ListedType(name) ==
    \/ name.base \in {"int", "unsigned int", "float"} /\ name.suffix = ""
    \/ name.base \in {"vec", "ivec", "uivec"}

\* C30 as stated: typeToMPI maps every listed type, with or without '*', to
\* the wire type of its scalar base, with multiplier 1 for scalars, the
\* suffix for suffixed vectors and the platform default for vec, ivec and
\* uivec; every other type name yields the null descriptor.
C30_Original ==
    \A i \in DOMAIN xTypes :
        xDesc[i] # NoDescriptor =>
            IF ListedType(xTypes[i])
            THEN /\ xDesc[i].t = WireOf(xTypes[i].base)
                 /\ xDesc[i].n = ComponentsOf(xTypes[i], xHave3D)
            ELSE xDesc[i].t = "MPI::DATATYPE_NULL"

\* C30 amended: typeToMPI strips the '*' and one suffix 2, 3 or 4 from any
\* name, also from a scalar one (int2 is two MPI::INT), and maps what is
\* left to the wire type of the scalar base; the multiplier is the suffix,
\* or the platform default for vec, ivec and uivec, or 1; a name whose base
\* is none of int, unsigned int, float, vec, ivec, uivec yields the null
\* type.
C30_TypeToMPI ==
    \A i \in DOMAIN xTypes :
        xDesc[i] # NoDescriptor =>
            /\ xDesc[i].t = WireOf(xTypes[i].base)
            /\ xDesc[i].n = ComponentsOf(xTypes[i], xHave3D)

\* C30 witness: in a 3D build the send callbacks of an unsuffixed vec* and
\* of a suffixed scalar got their descriptors.
C30_Witness ==
    /\ xHave3D
    /\ Len(xTypes) = 2
    /\ xTypes[1] = [base |-> "vec", suffix |-> "", star |-> "*"]
    /\ xDesc[1] = [n |-> 4, t |-> "MPI::FLOAT"]
    /\ xTypes[2] = [base |-> "int", suffix |-> "2", star |-> "*"]
    /\ xDesc[2] = [n |-> 2, t |-> "MPI::INT"]

\* The positions of the executes of a tool in the last MPISync::_execute.
CallsOf(tool) == {i \in DOMAIN mCalls.calls : mCalls.calls[i] = tool}

LLKernelCommands(queue) ==
    {i \in DOMAIN queue : queue[i].kind \in {"iCell", "iHoc", "linkList"}}

\* C25: a LinkList::execute with a zero cell length fails, and the step that
\* fails leaves the ihoc buffer (its handle, the buffer behind every handle
\* and the number of buffers created), the registry value of n_cells and the
\* command queue as they were: nothing is released or replaced, n_cells is not
\* modified and no iCell, iHoc or linkList command is enqueued; a call that
\* does not fail has a non-zero cell length.
C25_ZeroEdgeFatal ==
    [][/\ (llPc = "wait" /\ llPc' = "failed") =>
            /\ llCellLength = 0
            /\ UNCHANGED <<llIhoc, llBuf, llGen, llNCells, llKArgs, llShadow>>
            /\ LLKernelCommands(llQueue') = LLKernelCommands(llQueue)
            /\ LLKernelCommands(llQueue') = {}
       /\ (llPc = "wait" /\ llPc' = "idle") => llCellLength # 0]_vars

\* C25 witness: the call with a zero cell length has failed, after its two
\* reductions were enqueued and completed.
C25_Witness ==
    /\ llPc = "failed"
    /\ llCellLength = 0
    /\ llQueue = <<>>
    /\ llIhoc = 0
    /\ llNCells = <<0, 0, 0, 0>>

\* The integer part of d / edge, for d >= 0 and edge > 0.
IntegerPart(d, edge) ==
    CHOOSE q \in 0..d : q * edge <= d /\ d < (q + 1) * edge

\* C24: once LinkList::nCells has run, each active dimension of _n_cells is
\* the integer part of (r_max - r_min) / _cell_length plus 6, the third
\* dimension is 1 in a 2D build, and the total is the product of the three
\* dimensions.
C24_CellGridSizing ==
    gPc # "idle" =>
        /\ gRequired[1] = IntegerPart(gRMax[1] - gRMin[1], gCellLength) + 6
        /\ gRequired[2] = IntegerPart(gRMax[2] - gRMin[2], gCellLength) + 6
        /\ gRequired[3] = IF gHave3D
                          THEN IntegerPart(gRMax[3] - gRMin[3], gCellLength) + 6
                          ELSE 1
        /\ gRequired[4] = gRequired[1] * gRequired[2] * gRequired[3]

\* C24 witness: positions spanning (-1,-2) to (5,4) with support * h = 2 in a
\* 2D build give the grid (9,9,1,81).
C24_Witness ==
    /\ gPc # "idle"
    /\ ~gHave3D
    /\ gCellLength = 2
    /\ gRMin = <<-1, -2, 0>>
    /\ gRMax = <<5, 4, 0>>
    /\ gRequired = <<9, 9, 1, 81>>

\* The particles of the sorted icell that lie in cell c, counted from 0.
ParticlesIn(icell, c) == {i \in 0..(Len(icell) - 1) : icell[i + 1] = c}

\* The value the head-of-cell table holds for cell c: the smallest index of
\* the sorted icell in the cell, or the number of particles N as sentinel.
HeadOfCell(icell, c) ==
    IF ParticlesIn(icell, c) = {} THEN Len(icell)
    ELSE CHOOSE i \in ParticlesIn(icell, c) :
             \A j \in ParticlesIn(icell, c) : i <= j

\* C23: after LinkList::execute icell is sorted and holds cells of
\* [0, n_cells.total), and for every cell c of [0, n_cells.total) ihoc[c] is
\* the smallest index i with sorted icell[i] = c, or the sentinel N when no
\* particle lies in c; sorted cells [2,2,5,5,5] with 8 cells give ihoc[2] = 0,
\* ihoc[5] = 2 and the sentinel elsewhere.
C23_HeadOfCell ==
    /\ gPc = "done" =>
          /\ \A i, j \in DOMAIN gICell : i <= j => gICell[i] <= gICell[j]
          /\ \A i \in DOMAIN gICell : gICell[i] \in 0..(gNCells[4] - 1)
          /\ \A c \in 0..(gNCells[4] - 1) :
                c \in DOMAIN gIhoc /\ gIhoc[c] = HeadOfCell(gICell, c)
    /\ iHoc([c \in 0..7 |-> -1], <<2, 2, 5, 5, 5>>, 5, <<8, 1, 1, 8>>, 8)
         = [c \in 0..7 |-> IF c = 2 THEN 0 ELSE IF c = 5 THEN 2 ELSE 5]

\* C23 witness: an execute that kept the buffer of a larger grid has run, one
\* cell has its head at index 1 and another cell is empty.
C23_Witness ==
    /\ gPc = "done"
    /\ gRequired[4] < gNCells[4]
    /\ \E c \in DOMAIN gIhoc : c < gNCells[4] /\ gIhoc[c] = 1
    /\ \E c \in DOMAIN gIhoc : c < gNCells[4] /\ gIhoc[c] = Len(gR)

\* ceil(n / local_size)
CeilDiv(n, local_size) == (n + local_size - 1) \div local_size

\* C26: the setup of a reduction over N >= 1 elements does not fail, its loop
\* runs fewer than N times, pass i reduces n_i elements with n_0 = N and
\* n_{i+1} = ceil(n_i / local_size), and when the loop has ended there is one
\* kernel and one output buffer per pass, the output buffer of a pass is the
\* input buffer of the next one, and the last buffer holds one element.
C26_PassSequence ==
    /\ pPc # "failed"
    /\ Len(pNs) < pInput
    /\ \A i \in DOMAIN pNs :
          /\ pNs[i] = IF i = 1 THEN pInput
                      ELSE CeilDiv(pNs[i - 1], pLocalSize)
          /\ pGroups[i] = CeilDiv(pNs[i], pLocalSize)
    /\ pPc = "done" =>
          /\ Len(pKernels) = Len(pNs)
          /\ Len(pMems) = Len(pNs) + 1
          /\ \A i \in DOMAIN pKernels :
                /\ pKernels[i].input = i - 1
                /\ pKernels[i].output = i
                /\ pMems[i + 1] = pGroups[i]
          /\ pMems[Len(pMems)] = 1

\* The events an event of the run with the assertion stands for in the run
\* without it: an event of the assertion stands for the events it waits on.
RECURSIVE ChkStrip(_, _)
ChkStrip(e, waits) ==
    IF e.tool = "Assert"
    THEN UNION {ChkStrip(f, waits) :
                  f \in UNION {w.waits : w \in {w \in waits : w.event = e}}}
    ELSE {e}

MaskUnregistered == ~vMaskVar.registered

MaskBadType ==
    vMaskVar.registered
        /\ ~(vMaskVar.type.base = "unsigned int" /\ vMaskVar.type.star = "*")

FieldUnregistered(i) == ~vFieldVars[i].registered

FieldScalar(i) == vFieldVars[i].registered /\ vFieldVars[i].type.star = ""

FieldBadLength(i) ==
    vFieldVars[i].registered /\ vFieldVars[i].type.star = "*"
        /\ vFieldVars[i].n # vMaskVar.n

FieldFault(i) == FieldUnregistered(i) \/ FieldScalar(i) \/ FieldBadLength(i)

\* The fault MPISync::variables meets first: the mask before the fields, the
\* fields in the order the tool names them.
FirstFieldFault(i) ==
    FieldFault(i) /\ \A j \in 1..(i - 1) : ~FieldFault(j)

\* C28: MPISync::setup fails exactly when the mask or a field is at fault,
\* with "Invalid variable" for an unregistered mask or field, "Invalid
\* variable type" for a mask that is not an unsigned int* or a scalar field,
\* and "Invalid variable length" for a field whose length is not the mask's
\* (of several faults the first one met names the error); after a failure
\* the dependencies of the tool are not set and no sorter, sender or receiver
\* was created.
C28_SetupRejects ==
    /\ vPc = "ready" =>
          /\ ~MaskUnregistered /\ ~MaskBadType
          /\ \A i \in DOMAIN vFieldVars : ~FieldFault(i)
          /\ vError = ""
    /\ vPc = "failed" =>
          /\ vDeps = <<>>
          /\ vBuilt = <<>>
          /\ \/ MaskUnregistered /\ vError = "Invalid variable"
             \/ MaskBadType /\ vError = "Invalid variable type"
             \/ /\ ~MaskUnregistered /\ ~MaskBadType
                /\ \E i \in DOMAIN vFieldVars :
                      /\ FirstFieldFault(i)
                      /\ FieldUnregistered(i) => vError = "Invalid variable"
                      /\ FieldScalar(i) => vError = "Invalid variable type"
                      /\ FieldBadLength(i) => vError = "Invalid variable length"

\* C28 witness: a setup failed on the length of its second field, after the
\* first field was accepted.
C28_Witness ==
    /\ vPc = "failed"
    /\ vError = "Invalid variable length"
    /\ vFields = <<1>>
    /\ vMask
    /\ vDeps = <<>>
    /\ vBuilt = <<>>

\* C29: an execute of a report that wrote its output found at least ipf
\* iterations (ipf > 0) or at least 1 / fps of simulation time (fps > 0)
\* passed since the last written output, so it wrote nothing with both knobs
\* at zero, and it left the iteration and the time of that execute as the
\* last output; an execute that wrote nothing left both unchanged.
C29_ReportThreshold ==
    repLast.ran =>
        /\ repLast.wrote =>
              /\ \/ repIpf > 0 /\ repLast.iter - repLast._iter >= repIpf
                 \/ repFps > 0 /\ (repLast.t - repLast._t) * repFps >= TimeScale
              /\ repLastIter = repLast.iter
              /\ repLastT = repLast.t
        /\ ~repLast.wrote =>
              /\ repLastIter = repLast._iter
              /\ repLastT = repLast._t

\* The powers of two an unsigned int holds.
PowersOf2 == {2 ^ k : k \in 0..(WordBits - 1)}

\* C40: for every n >= 1 the loop of nextPowerOf2 ends, within as many turns
\* as an unsigned int has bits and with p never wrapped to zero, and the value
\* returned is the smallest power of two >= n; the local size setupOpenCL
\* takes from the size of the device is a power of two not greater than it.
C40_NextPowerOf2 ==
    /\ wTurns < WordBits
    /\ wPc = "loop" => wP # 0
    /\ wPc = "returned" =>
          /\ wValue \in PowersOf2
          /\ wValue >= wN
          /\ \A q \in PowersOf2 : q >= wN => wValue <= q
    /\ \A m \in DeviceLocalSizes :
          LocalSize(m) \in PowersOf2 /\ LocalSize(m) <= m

\* str with each occurrence of search, taken from left to right without
\* overlap, replaced by replace.
RECURSIVE Replaced(_, _, _)
Replaced(str, search, replace) ==
    IF str = <<>> THEN <<>>
    ELSE IF MatchAt(str, search, 0)
    THEN replace \o Replaced(SubSeq(str, Len(search) + 1, Len(str)),
                             search, replace)
    ELSE <<Head(str)>> \o Replaced(Tail(str), search, replace)

\* C39: replaceAll ends for every str, every non-empty search and every
\* replace: its loop takes at most one turn per character of the str of the
\* call, and on return str is the str of the call with each occurrence of
\* search replaced by replace.
C39_ReplaceAllTerminates ==
    /\ sTurns <= Len(sOriginal)
    /\ sLoc = "returned" => sStr = Replaced(sOriginal, sSearch, sReplace)

\* C38: after the construction of an MPISync the stored list of peers holds
\* neither the local rank nor an id that is no rank, whatever list the caller
\* passed; an empty list yields every rank but the local one; and with an
\* empty stored list an execute returns at once, without the exchange.
C38_PeerListValid ==
    kPc = "built" =>
        /\ \A i \in DOMAIN kProcs : kProcs[i] # kRank /\ kProcs[i] < kSize
        /\ kInput = <<>> =>
              /\ {kProcs[i] : i \in DOMAIN kProcs} = (0..(kSize - 1)) \ {kRank}
              /\ Len(kProcs) = kSize - 1
        /\ Len(kProcs) = 0 => kLast \in {"none", "returned"}

\* C31: within every LinkList::execute the host sizes the grid only after
\* the writing events of both position reductions have completed, the radix
\* sort starts only after the iCell kernel has completed, the iHoc kernel
\* starts only after the sort has completed, the linkList kernel starts only
\* after the iHoc kernel has completed, and the out-event returned is the
\* event of the linkList kernel.
C31_StepOrder ==
    \A e \in OrdExecs :
        /\ (e < oExec \/ (e = oExec /\ oPc # "wait")) =>
               oSeen[e] = <<"complete", "complete">>
        /\ OrdStarted(oStatus, <<"sort", e>>) =>
               oStatus[<<"iCell", e>>] = "complete"
        /\ OrdStarted(oStatus, <<"iHoc", e>>) =>
               oStatus[<<"sort", e>>] = "complete"
        /\ OrdStarted(oStatus, <<"linkList", e>>) =>
               oStatus[<<"iHoc", e>>] = "complete"
        /\ (e < oExec \/ (e = oExec /\ oPc = "idle")) =>
               oOut[e] = <<"linkList", e>>

\* C31 witness: the second call has returned and its linkList kernel has
\* started while the host had run ahead of the device.
C31_Witness ==
    /\ oExec = MaxOrdExecs
    /\ oPc = "idle"
    /\ OrdStarted(oStatus, <<"linkList", MaxOrdExecs>>)
    /\ oOut[1] = <<"linkList", 1>>

\* The events _execute holds for a while and gives up before it returns:
\* the writing event of the input and the events of the passes.
IntermediateEvents ==
    (IF cInput # NoEvent THEN {cInput} ELSE {})
        \cup {PassEvent(i) : i \in 1..cKernels}

\* C32: in a Reduction::_execute with at least one pass, the first pass waits
\* only on the writing event of the input variable (on nothing when it is
\* null), each later pass waits only on the event of the pass before it, the
\* blocking read waits on the event of the last pass together with the wait
\* list of the tool, and each intermediate event is retained or created once
\* and released once.
C32_PassChain ==
    /\ \A e \in ChainEvents : cReleased[e] <= cCreated[e] + cRetained[e]
    /\ (cPc = "done" /\ cKernels >= 1) =>
          /\ Len(cCmds) = cKernels + 1
          /\ cCmds[1].kind = "pass"
          /\ cCmds[1].wait = (IF cInput = NoEvent THEN {} ELSE {cInput})
          /\ \A i \in 2..cKernels :
                /\ cCmds[i].kind = "pass"
                /\ cCmds[i].wait = {cCmds[i - 1].out}
          /\ cCmds[cKernels + 1].kind = "read"
          /\ cCmds[cKernels + 1].wait =
                {cCmds[cKernels].out} \cup SeqRange(cEvents)
          /\ \A e \in IntermediateEvents :
                /\ cCreated[e] + cRetained[e] = 1
                /\ cReleased[e] = 1

\* C32 witness: a call of three passes on an input with a writing event and a
\* wait list of the tool has returned.
C32_Witness ==
    /\ cPc = "done"
    /\ cKernels = 3
    /\ cInput # NoEvent
    /\ Len(cEvents) = 3

\* C33: at every LinkList::execute the cell edge used to size the grid is
\* support * h for the values the two scalars hold at that call, the values
\* bound to the iCell kernel.
C33_EdgeCurrent ==
    eExecs > 0 =>
        /\ eLast.edge = eLast.support * eLast.h
        /\ eLast.edge = eLast.kargs[1] * eLast.kargs[2]

\* An execute has sized the grid at least once.
GridSized == gRequired # <<0, 0, 0, 0>>

\* C34, the part on states: after every LinkList::execute the stored total of
\* n_cells is at least the product of the three stored dimensions, it is the
\* element count of the ihoc buffer, and the global work size of iHoc covers
\* it.
C34_CapacityNow ==
    GridSized =>
        /\ gNCells[4] >= gNCells[1] * gNCells[2] * gNCells[3]
        /\ Cardinality(DOMAIN gIhoc) = gNCells[4]
        /\ gIhocGws >= gNCells[4]

\* C34, the part on steps: an execute never decreases the stored total, and
\* when the newly computed total does not exceed the stored one it changes
\* the three dimensions only: the ihoc buffer, the stored total and the
\* global work size of iHoc stay as they are.
C34_CapacityStep ==
    (gPc = "idle" /\ gPc' = "iCell") =>
        /\ gNCells'[4] >= gNCells[4]
        /\ <<gNCells'[1], gNCells'[2], gNCells'[3]>>
               = <<gRequired'[1], gRequired'[2], gRequired'[3]>>
        /\ gRequired'[4] <= gNCells[4] =>
               /\ gIhoc' = gIhoc
               /\ gNCells'[4] = gNCells[4]
               /\ gIhocGws' = gIhocGws

\* C34: the capacity invariant of the cell grid over any sequence of
\* LinkList::execute calls.
C34_Capacity == [](C34_CapacityNow) /\ [][C34_CapacityStep]_vars

\* C34 witness: an execute found a grid smaller than the allocated one and
\* kept the buffer, with dimensions that no longer multiply to the total.
C34_Witness ==
    /\ gPc = "iCell"
    /\ gRequired[4] < gNCells[4]
    /\ gNCells[1] * gNCells[2] * gNCells[3] < gNCells[4]

\* What the kernels would be bound to if every argument were set again at
\* the call, whatever the shadow copies hold.
UnconditionalArgs == setupArgs(Registry(llNCells, llIhoc, llRMin))

\* C35: after LinkList::setVariables, for each of the three kernels and every
\* slot, the value bound to the kernel is the current value of the variable
\* on the registry and is the shadow copy: the kernels are launched with the
\* arguments an unconditional clSetKernelArg of every slot would give.
C35_ShadowIsOptimization ==
    llExecs > 0 =>
        \A k \in Kernels : \A i \in DOMAIN KernelVars[k] :
            /\ llLast.launch[k][i] = UnconditionalArgs[k][i]
            /\ llKArgs[k][i] = UnconditionalArgs[k][i]
            /\ llShadow[k][i] = llKArgs[k][i]

\* C35 witness: a second call skipped the slots of ihoc, whose handle had
\* not changed, and bound a new r_min.
C35_Witness ==
    /\ llExecs >= 2
    /\ ~llLast.realloc
    /\ llIhoc # 0
    /\ llRMin # <<0, 0>>

\* The callbacks that released the user event of a call.
ReleasersOf(e) == {k \in UsrCalls : uReleased[k] = e}

\* The callbacks that set the status of the user event of a call.
SettersOf(e) == {k \in UsrCalls : uSetOn[k] = e}

\* C36: the user event a Reduction::execute creates is the one its own
\* populator callback sets to a terminal status and releases, also when the
\* tool is executed again before that callback has returned: no callback acts
\* on the user event of another call, no user event is set or released twice,
\* and once its callback has returned a user event is not pending.
C36_OwnUserEvent ==
    \A k \in UsrCalls :
        /\ uSetOn[k] \in {0, k}
        /\ uReleased[k] \in {0, k}
        /\ Cardinality(SettersOf(k)) <= 1
        /\ Cardinality(ReleasersOf(k)) <= 1
        /\ uCallback[k] = "done" => uStatus[k] \in {"complete", "error"}

\* C37: the offset and the count a send callback uses are the ones the
\* reductions of the sender computed in the iteration whose marker triggered
\* it, and all field callbacks of one iteration use the same pair, also when
\* the Sender::execute of the next iteration runs before the callback.
C37_CallbackReadsOwnIteration ==
    \A k \in SndIters :
        /\ \A t \in SndTags : dUsed[k][t] \in {<<>>, dComputed[k]}
        /\ \A t, u \in SndTags :
              (dUsed[k][t] # <<>> /\ dUsed[k][u] # <<>>) =>
                  dUsed[k][t] = dUsed[k][u]

====
